---- MODULE Spec2Model ----
(***************************************************************************)
(* Model of the country import command (update_country_listing), the row   *)
(* validator, the database manager and the API client's retry loop.        *)
(*                                                                         *)
(* Strings are sequences of one-character strings, so that strip() and     *)
(* upper() are computed and not assumed.  A Country object is identified   *)
(* by its name: countries_by_name holds one object per name and to_create  *)
(* and to_update hold references (names) into that map, which is how the   *)
(* Python lists alias the objects of the map.                              *)
(***************************************************************************)
EXTENDS Integers, Sequences, FiniteSets, TLC

\* ------------------------------------------------------------------ bounds
MaxRows == 2
MaxBatch == 2
MaxRuns == 2

\* ------------------------------------------------------------ text helpers
Lower == {"a", "b", "x", "y", "r", "s", "t", "l"}
UpperCase == {"A", "B", "X", "Y", "R", "S", "T", "L"}
Digits == {"0", "1", "2", "3", "4", "5", "6", "7", "8", "9"}
Space == {" "}

\* str.upper(), one character
UpperChar(c) ==
  CASE c = "a" -> "A" [] c = "b" -> "B" [] c = "x" -> "X" [] c = "y" -> "Y"
    [] c = "r" -> "R" [] c = "s" -> "S" [] c = "t" -> "T" [] c = "l" -> "L"
    [] OTHER -> c

Upper(s) == [i \in 1..Len(s) |-> UpperChar(s[i])]

RECURSIVE LStrip(_)
LStrip(s) == IF s # <<>> /\ Head(s) \in Space THEN LStrip(Tail(s)) ELSE s

RECURSIVE RStrip(_)
RStrip(s) ==
  IF s # <<>> /\ s[Len(s)] \in Space THEN RStrip(SubSeq(s, 1, Len(s) - 1)) ELSE s

\* str.strip()
Strip(s) == RStrip(LStrip(s))

\* ------------------------------------------------------------- JSON values
\* A JSON value is tagged with its Python type: a list of values, a str, an
\* int.  A JSON text is the value it encodes wrapped in [text |-> v];
\* json.loads of a text gives the value back.  A str is written by its
\* characters (JStr) or, when its characters are the JSON text of a value,
\* by that text (JText); either way it is a str to json.dumps.
JList(items) == [t |-> "list", v |-> items]
JStr(s) == [t |-> "str", v |-> s]
JInt(n) == [t |-> "int", v |-> n]
JNone == [t |-> "none", v |-> <<>>]

JsonDumps(value) == [text |-> value]
JsonLoads(text) == text.text

JText(value) == [t |-> "strjson", v |-> JsonDumps(value)]

\* the number of characters str(n) has
RECURSIVE IntLen(_)
IntLen(n) == IF n < 0 THEN 1 + IntLen(0 - n) ELSE IF n < 10 THEN 1 ELSE 1 + IntLen(n \div 10)

\* the number of str items of a list, each of which has two quotes
RECURSIVE QuoteCount(_)
QuoteCount(items) ==
  IF items = <<>> THEN 0
  ELSE (IF Head(items).t \in {"str", "strjson"} THEN 2 ELSE 0) + QuoteCount(Tail(items))

\* len(json.dumps(value)): the brackets, the items and ", " between them;
\* the quotes around a str, those inside it escaped; the digits; null
RECURSIVE JsonLen(_)
RECURSIVE ItemsLen(_)
ItemsLen(items) ==
  IF items = <<>> THEN 0
  ELSE JsonLen(Head(items)) + (IF Len(items) > 1 THEN 2 ELSE 0) + ItemsLen(Tail(items))
JsonLen(value) ==
  CASE value.t = "list" -> 2 + ItemsLen(value.v)
    [] value.t = "str" -> 2 + Len(value.v)
    [] value.t = "strjson" ->
         2 + JsonLen(JsonLoads(value.v))
           + (IF JsonLoads(value.v).t = "list" THEN QuoteCount(JsonLoads(value.v).v) ELSE 0)
    [] value.t = "int" -> IntLen(value.v)
    [] OTHER -> 4

\* ---------------------------------------------------------- form validation
RequiredKeys == {"name", "region", "alpha2Code", "alpha3Code", "population"}

\* forms.CharField(strip=True, min_length=lo, max_length=hi): the stripped
\* value, accepted when its length is within the limits
CharFieldOk(s, lo, hi) == Len(Strip(s)) >= lo /\ Len(Strip(s)) <= hi

TldChar == Lower \cup UpperCase \cup Digits \cup {"-"}

\* tld_pattern = ^\.[A-Za-z0-9-]{2,}$
TldPatternMatch(s) ==
  /\ Len(s) >= 3
  /\ s[1] = "."
  /\ \A i \in 2..Len(s) : s[i] \in TldChar

\* mutant: the pattern is not applied
TldEntryKeptAnyStr(e) ==
  /\ e.t = "str"
  /\ Strip(e.v) # <<>>

\* one entry of the list survives when it is a str, is not empty after
\* strip() and matches the pattern
TldEntryKept(e) ==
  /\ e.t = "str"
  /\ Strip(e.v) # <<>>
  /\ TldPatternMatch(Strip(e.v))

RECURSIVE FilterTlds(_)
FilterTlds(items) ==
  IF items = <<>> THEN <<>>
  ELSE IF TldEntryKept(Head(items))
       THEN <<JStr(Strip(Head(items).v))>> \o FilterTlds(Tail(items))
       ELSE FilterTlds(Tail(items))

\* topLevelDomain = forms.CharField(max_length=2000, required=True) on the
\* text validate_row hands the form
MaxTldText == 2000
TldFieldOk(text) == JsonLen(JsonLoads(text)) <= MaxTldText

\* CountryRowForm.clean_topLevelDomain on the form's text
CleanTldOk(text) == JsonLoads(text).t = "list"
CleanTld(text) == JsonDumps(JList(FilterTlds(JsonLoads(text).v)))

\* CountryRowForm.clean_capital: an empty capital becomes None
CleanCapital(s) == IF Strip(s) = <<>> THEN JNone ELSE JStr(Strip(s))

\* forms.IntegerField(min_value=0) on an int or on a str of digits
IsDigits(s) == s # <<>> /\ \A i \in 1..Len(s) : s[i] \in Digits
DigitValue(c) ==
  CASE c = "0" -> 0 [] c = "1" -> 1 [] c = "2" -> 2 [] c = "3" -> 3 [] c = "4" -> 4
    [] c = "5" -> 5 [] c = "6" -> 6 [] c = "7" -> 7 [] c = "8" -> 8 [] c = "9" -> 9
RECURSIVE ParseInt(_)
ParseInt(s) == IF s = <<>> THEN 0 ELSE 10 * ParseInt(SubSeq(s, 1, Len(s) - 1)) + DigitValue(s[Len(s)])
PopulationOk(p) ==
  \/ p.t = "int" /\ p.v >= 0
  \/ p.t = "str" /\ IsDigits(Strip(p.v))
CleanPopulation(p) == IF p.t = "int" THEN p.v ELSE ParseInt(Strip(p.v))

\* What validate_row hands to the form for a row (absent optional keys get
\* their default)
FormTld(row) ==
  JsonDumps(IF "topLevelDomain" \in row.keys THEN row.topLevelDomain ELSE JList(<<>>))
FormCapital(row) == IF "capital" \in row.keys THEN row.capital ELSE <<>>

\* DataValidator.validate_row: TRUE when no CountryDataValidationError is raised
ValidateRowOk(row) ==
  /\ RequiredKeys \subseteq row.keys
  /\ CharFieldOk(row.name, 1, 200)
  /\ CharFieldOk(row.region, 1, 100)
  /\ CharFieldOk(row.alpha2Code, 2, 2)
  /\ CharFieldOk(row.alpha3Code, 3, 3)
  /\ PopulationOk(row.population)
  /\ TldFieldOk(FormTld(row))
  /\ CleanTldOk(FormTld(row))
  /\ CharFieldOk(FormCapital(row), 0, 100)

\* mutant: the codes are returned as they were typed
ValidateRowAsTyped(row) ==
  [name |-> Strip(row.name),
   region |-> Strip(row.region),
   alpha2Code |-> Strip(row.alpha2Code),
   alpha3Code |-> Strip(row.alpha3Code),
   population |-> CleanPopulation(row.population),
   topLevelDomain |-> CleanTld(FormTld(row)),
   capital |-> CleanCapital(FormCapital(row))]

\* DataValidator.validate_row: the cleaned dict
ValidateRow(row) ==
  [name |-> Strip(row.name),
   region |-> Strip(row.region),
   alpha2Code |-> Upper(Strip(row.alpha2Code)),
   alpha3Code |-> Upper(Strip(row.alpha3Code)),
   population |-> CleanPopulation(row.population),
   topLevelDomain |-> CleanTld(FormTld(row)),
   capital |-> CleanCapital(FormCapital(row))]

\* ------------------------------------------------------------ the database
\* A stored Country row.  The table is a sequence in rowid order; Region is
\* the set of stored region names (Region.name is unique).
CountryRow(name, obj) ==
  [name |-> name,
   alpha2Code |-> obj.alpha2Code,
   alpha3Code |-> obj.alpha3Code,
   population |-> obj.population,
   topLevelDomain |-> obj.topLevelDomain,
   capital |-> obj.capital,
   region |-> obj.region]

\* The Python object of a stored row (it has a primary key)
CountryObject(row, hasPk) ==
  [alpha2Code |-> row.alpha2Code,
   alpha3Code |-> row.alpha3Code,
   population |-> row.population,
   topLevelDomain |-> row.topLevelDomain,
   capital |-> row.capital,
   region |-> row.region,
   pk |-> hasPk]

\* unique=True on Country.name, alpha2Code and alpha3Code
Conflict(a, b) ==
  \/ a.name = b.name
  \/ a.alpha2Code = b.alpha2Code
  \/ a.alpha3Code = b.alpha3Code

UniqueOk(rows) ==
  \A i, j \in 1..Len(rows) : i # j => ~Conflict(rows[i], rows[j])

Range(seq) == {seq[i] : i \in 1..Len(seq)}

\* alpha2_validator ^[A-Z]{2}$ and alpha3_validator ^[A-Z]{3}$
AlphaValidatorOk(code, n) ==
  Len(code) = n /\ \A i \in 1..Len(code) : code[i] \in UpperCase

\* Country.full_clean() of a new Country: the field validators, the region
\* foreign key (null when the Region was never saved) and validate_unique
\* against the rows the table holds at that moment.  The 64-bit range of
\* population is beyond the populations of the feed modelled here.
CountryFullCleanOk(desired, regionHasPk, table) ==
  /\ Len(desired.name) <= 100
  /\ AlphaValidatorOk(desired.alpha2Code, 2)
  /\ AlphaValidatorOk(desired.alpha3Code, 3)
  /\ regionHasPk
  /\ \A i \in 1..Len(table) : ~Conflict(table[i], desired)

\* Region.full_clean(): max_length and validate_unique on name
RegionFullCleanOk(name, storedRegions) ==
  /\ Len(name) >= 1
  /\ Len(name) <= 100
  /\ name \notin storedRegions

\* mutant: only the Country rows are deleted
ResetKeepsRegions(db) == [regions |-> db.regions, countries |-> <<>>]

\* DatabaseManager.reset_database: Country rows, then Region rows
ResetDatabase(db) == [regions |-> {}, countries |-> <<>>]

\* mutant: the Region is saved on a dry run too
SaveRegionAlways(storedRegions, name, dry_run) == storedRegions \cup {name}

\* region.save() in get_or_create_region, skipped on a dry run
SaveRegion(storedRegions, name, dry_run) ==
  IF dry_run THEN storedRegions ELSE storedRegions \cup {name}

\* the value bulk_create_countries / bulk_update_countries return
BulkReturn(n) == n

\* Country.objects.bulk_create(countries): one INSERT; a duplicate of a
\* unique column is an IntegrityError
BulkCreateOk(table, rows) == UniqueOk(table \o rows)

\* Country.objects.bulk_update(countries, fields): one UPDATE ... CASE, the
\* unique indexes being checked as each row is rewritten, in rowid order.
\* Returns the table, or <<"IntegrityError">> in place of it.
RECURSIVE ApplyUpdates(_, _, _, _)
ApplyUpdates(table, i, names, objs) ==
  IF i > Len(table) THEN [ok |-> TRUE, table |-> table]
  ELSE IF table[i].name \in names
       THEN LET new == [table EXCEPT ![i] = CountryRow(table[i].name, objs[table[i].name])]
            IN IF \E j \in 1..Len(new) : j # i /\ Conflict(new[j], new[i])
               THEN [ok |-> FALSE, table |-> table]
               ELSE ApplyUpdates(new, i + 1, names, objs)
       ELSE ApplyUpdates(table, i + 1, names, objs)

\* --------------------------------------------------------- process_records
\* The locals of process_records and the tables it writes, as one record:
\* regions, countries (the tables), rbn (regions_by_name: name -> has a
\* primary key), cbn (countries_by_name: name -> object), to_create and
\* to_update (names of objects of cbn), the three counters and err, the
\* exception that left the function ("" when none).
MutableFields ==
  {"alpha2Code", "alpha3Code", "population", "topLevelDomain", "capital", "region"}

\* mutant: the flush's return value is added to a counter that already
\* counted the rows when they were enqueued
FlushCreateCountsAgain(st, dry_run, canReturnIds) ==
  LET names == st.to_create
      n == Len(names)
      rows == [i \in 1..n |-> CountryRow(names[i], st.cbn[names[i]])]
  IN IF dry_run
     THEN [st EXCEPT !.created = st.created + BulkReturn(n), !.to_create = <<>>,
                     !.flushed.create = @ \o names]
     ELSE IF ~BulkCreateOk(st.countries, rows)
     THEN [st EXCEPT !.err = "IntegrityError"]
     ELSE [st EXCEPT !.countries = st.countries \o rows,
                     !.cbn = [k \in DOMAIN st.cbn |->
                                IF k \in Range(names) /\ canReturnIds
                                THEN [st.cbn[k] EXCEPT !.pk = TRUE]
                                ELSE st.cbn[k]],
                     !.created = st.created + BulkReturn(n),
                     !.to_create = <<>>,
                     !.flushed.create = @ \o names]

\* DatabaseManager.bulk_create_countries, and the caller's bookkeeping.
\* The caller passes batch_size=batch_size; the bulk_* functions are
\* modelled by their bodies: write unless dry_run, return len(countries).
\* The backend may or may not set the pk of the objects it inserted.
FlushCreate(st, dry_run, canReturnIds) ==
  LET names == st.to_create
      n == Len(names)
      rows == [i \in 1..n |-> CountryRow(names[i], st.cbn[names[i]])]
  IN IF dry_run
     THEN [st EXCEPT !.created = st.created + BulkReturn(n) - n,
                     !.to_create = <<>>,
                     !.flushed.create = @ \o names]
     ELSE IF ~BulkCreateOk(st.countries, rows)
     THEN [st EXCEPT !.err = "IntegrityError"]
     ELSE [st EXCEPT !.countries = st.countries \o rows,
                     !.cbn = [k \in DOMAIN st.cbn |->
                                IF k \in Range(names) /\ canReturnIds
                                THEN [st.cbn[k] EXCEPT !.pk = TRUE]
                                ELSE st.cbn[k]],
                     !.created = st.created + BulkReturn(n) - n,
                     !.to_create = <<>>,
                     !.flushed.create = @ \o names]

\* mutant: the flushed queue is not cleared
FlushUpdateKeepsQueue(st, dry_run) ==
  LET names == st.to_update
      n == Len(names)
      res == ApplyUpdates(st.countries, 1, Range(names), st.cbn)
  IN IF dry_run
     THEN [st EXCEPT !.updated = st.updated + BulkReturn(n) - n,
                     !.flushed.update = @ \o names]
     ELSE IF \E i \in 1..n : ~st.cbn[names[i]].pk
     THEN [st EXCEPT !.err = "ValueError"]
     ELSE IF ~res.ok
     THEN [st EXCEPT !.err = "IntegrityError"]
     ELSE [st EXCEPT !.countries = res.table,
                     !.updated = st.updated + BulkReturn(n) - n,
                     !.flushed.update = @ \o names]

\* DatabaseManager.bulk_update_countries, and the caller's bookkeeping;
\* bulk_update refuses an object without a primary key (ValueError)
FlushUpdate(st, dry_run) ==
  LET names == st.to_update
      n == Len(names)
      res == ApplyUpdates(st.countries, 1, Range(names), st.cbn)
  IN IF dry_run
     THEN [st EXCEPT !.updated = st.updated + BulkReturn(n) - n,
                     !.to_update = <<>>,
                     !.flushed.update = @ \o names]
     ELSE IF \E i \in 1..n : ~st.cbn[names[i]].pk
     THEN [st EXCEPT !.err = "ValueError"]
     ELSE IF ~res.ok
     THEN [st EXCEPT !.err = "IntegrityError"]
     ELSE [st EXCEPT !.countries = res.table,
                     !.updated = st.updated + BulkReturn(n) - n,
                     !.to_update = <<>>,
                     !.flushed.update = @ \o names]

\* mutant: the map is not consulted
GetOrCreateRegionAnew(st, name, dry_run) ==
  IF ~RegionFullCleanOk(name, st.regions)
  THEN [st EXCEPT !.err = "CountryDataValidationError"]
  ELSE [st EXCEPT !.regions = SaveRegion(st.regions, name, dry_run),
                  !.rbn = (name :> ~dry_run) @@ [k \in DOMAIN st.rbn \ {name} |-> st.rbn[k]],
                  !.constructed = Append(@, name)]

\* DatabaseManager.get_or_create_region
GetOrCreateRegion(st, name, dry_run) ==
  IF name \in DOMAIN st.rbn THEN st
  ELSE IF ~RegionFullCleanOk(name, st.regions)
  THEN [st EXCEPT !.err = "CountryDataValidationError"]
  ELSE [st EXCEPT !.regions = SaveRegion(st.regions, name, dry_run),
                  !.rbn = (name :> ~dry_run) @@ st.rbn,
                  !.constructed = Append(@, name)]

\* mutant: the new Country is enqueued without full_clean()
NewCountryUnchecked(st, desired, batch_size, dry_run, canReturnIds) ==
  LET obj == CountryObject(desired, FALSE)
      st2 == [st EXCEPT !.to_create = Append(st.to_create, desired.name),
                        !.enqueued.create = Append(@, desired.name),
                        !.cbn = (desired.name :> obj) @@ st.cbn,
                        !.created = st.created + 1]
  IN IF Len(st2.to_create) >= batch_size
     THEN FlushCreate(st2, dry_run, canReturnIds)
     ELSE st2

\* the "existing is None" branch of the loop body
NewCountry(st, desired, batch_size, dry_run, canReturnIds) ==
  IF ~CountryFullCleanOk(desired, st.rbn[desired.region], st.countries)
  THEN [st EXCEPT !.skipped = st.skipped + 1]
  ELSE LET obj == CountryObject(desired, FALSE)
           st2 == [st EXCEPT !.to_create = Append(st.to_create, desired.name),
                        !.enqueued.create = Append(@, desired.name),
                             !.cbn = (desired.name :> obj) @@ st.cbn,
                             !.created = st.created + 1]
       IN IF Len(st2.to_create) >= batch_size
          THEN FlushCreate(st2, dry_run, canReturnIds)
          ELSE st2

\* mutant: the region is left out of the comparison
ExistingCountryNoRegion(st, desired, batch_size, dry_run) ==
  LET existing == st.cbn[desired.name]
      changed == \E f \in MutableFields \ {"region"} : existing[f] # desired[f]
  IN IF changed
     THEN LET st2 == [st EXCEPT !.cbn[desired.name] =
                                   [CountryObject(desired, existing.pk)
                                      EXCEPT !.region = existing.region],
                                !.to_update = Append(st.to_update, desired.name),
                                !.enqueued.update = Append(@, desired.name),
                                !.updated = st.updated + 1]
          IN IF Len(st2.to_update) >= batch_size
             THEN FlushUpdate(st2, dry_run)
             ELSE st2
     ELSE [st EXCEPT !.skipped = st.skipped + 1]

\* the "else" branch of the loop body: compare, mutate the object of the
\* map, enqueue it when a field changed
ExistingCountry(st, desired, batch_size, dry_run) ==
  LET existing == st.cbn[desired.name]
      changed == \E f \in MutableFields : existing[f] # desired[f]
  IN IF changed
     THEN LET st2 == [st EXCEPT !.cbn[desired.name] = CountryObject(desired, existing.pk),
                                !.to_update = Append(st.to_update, desired.name),
                                !.enqueued.update = Append(@, desired.name),
                                !.updated = st.updated + 1]
          IN IF Len(st2.to_update) >= batch_size
             THEN FlushUpdate(st2, dry_run)
             ELSE st2
     ELSE [st EXCEPT !.skipped = st.skipped + 1]

\* one iteration of the loop over the rows
RowStep(st, row, batch_size, dry_run, canReturnIds) ==
  IF ~ValidateRowOk(row)
  THEN [st EXCEPT !.skipped = st.skipped + 1]
  ELSE LET cleaned == ValidateRow(row)
           st1 == GetOrCreateRegion(st, cleaned.region, dry_run)
       IN IF st1.err # "" THEN st1
          ELSE IF cleaned.name \notin DOMAIN st1.cbn
          THEN NewCountry(st1, cleaned, batch_size, dry_run, canReturnIds)
          ELSE ExistingCountry(st1, cleaned, batch_size, dry_run)

\* the tail flushes after the loop
TailStep(st, dry_run, canReturnIds) ==
  LET st1 == IF st.to_create # <<>> THEN FlushCreate(st, dry_run, canReturnIds) ELSE st
  IN IF st1.err # "" THEN st1
     ELSE IF st1.to_update # <<>> THEN FlushUpdate(st1, dry_run) ELSE st1

\* preload_regions_by_name / preload_countries_by_name: every stored row,
\* keyed by name
PreloadRegions(storedRegions) == [n \in storedRegions |-> TRUE]
PreloadCountries(table) ==
  [n \in {table[i].name : i \in 1..Len(table)} |->
     CountryObject(CHOOSE r \in Range(table) : r.name = n, TRUE)]

\* the loop over the rows from row i on, up to the first exception
RECURSIVE RunRows(_, _, _, _, _, _)
RunRows(st, rows, i, batch_size, dry_run, canReturnIds) ==
  IF st.err # "" \/ i > Len(rows) THEN st
  ELSE RunRows(RowStep(st, rows[i], batch_size, dry_run, canReturnIds), rows, i + 1,
               batch_size, dry_run, canReturnIds)

\* process_records(data, batch_size, dry_run, reset) on the tables db, as a
\* function: the locals and tables when it returns or raises
ProcessRecords(db, rows, batch_size, dry_run, reset, canReturnIds) ==
  LET db0 == IF reset /\ ~dry_run THEN ResetDatabase(db) ELSE db
      st0 == [regions |-> db0.regions, countries |-> db0.countries,
              rbn |-> PreloadRegions(db0.regions), cbn |-> PreloadCountries(db0.countries),
              to_create |-> <<>>, to_update |-> <<>>, created |-> 0, updated |-> 0,
              skipped |-> 0, constructed |-> <<>>,
              enqueued |-> [create |-> <<>>, update |-> <<>>],
              flushed |-> [create |-> <<>>, update |-> <<>>], err |-> ""]
      st1 == RunRows(st0, rows, 1, batch_size, dry_run, canReturnIds)
  IN IF st1.err # "" THEN st1 ELSE TailStep(st1, dry_run, canReturnIds)

\* what a command leaves behind: whether it succeeded, the counts it
\* reports and the tables (those it started from when the transaction is
\* rolled back)
ImportOutcome(db, rows, batch_size, dry_run, reset, canReturnIds) ==
  LET st == ProcessRecords(db, rows, batch_size, dry_run, reset, canReturnIds)
  IN IF st.err # ""
     THEN [ok |-> FALSE, created |-> 0, updated |-> 0, skipped |-> 0,
           regions |-> db.regions, countries |-> db.countries]
     ELSE [ok |-> TRUE, created |-> st.created, updated |-> st.updated,
           skipped |-> st.skipped, regions |-> st.regions, countries |-> st.countries]

\* -------------------------------------------------------------- the fetch
\* stop_after_attempt(3)
MaxAttempts == 3

\* What one GET meets: no connection, a timeout, or a response with a
\* status and, for a good status, a body: a non-empty JSON array, an empty
\* one, JSON that is no array, or no JSON; write_ok tells whether
\* api_response.json can be written.
Statuses == {200, 400, 404, 499, 500, 503, 599}
Bodies == {"list", "empty", "notlist", "notjson"}
Outcomes ==
  {[kind |-> k, status |-> 0, body |-> "list", write_ok |-> TRUE] :
     k \in {"ConnectionError", "Timeout"}}
  \cup {[kind |-> "response", status |-> c, body |-> "list", write_ok |-> TRUE] :
          c \in Statuses \ {200}}
  \cup {[kind |-> "response", status |-> 200, body |-> b, write_ok |-> TRUE] :
          b \in Bodies}
  \cup {[kind |-> "response", status |-> 200, body |-> "list", write_ok |-> FALSE]}

NoException == [type |-> "", status |-> 0]

\* One execution of the body of fetch_data: the exception it raises,
\* NoException when it returns the rows.  raise_for_status raises for
\* 400 <= status < 600.
FetchOnce(o, save_response) ==
  IF o.kind # "response" THEN [type |-> o.kind, status |-> 0]
  ELSE IF o.status >= 400 /\ o.status < 600 THEN [type |-> "HTTPError", status |-> o.status]
  ELSE IF o.body # "list" THEN [type |-> "ValueError", status |-> 0]
  ELSE IF save_response /\ ~o.write_ok THEN [type |-> "OSError", status |-> 0]
  ELSE NoException

\* mutant: every HTTP error is retried
RetryableAnyHttp(exc) ==
  \/ exc.type \in {"Timeout", "ConnectionError"}
  \/ exc.type = "HTTPError"

\* _retryable
Retryable(exc) ==
  \/ exc.type \in {"Timeout", "ConnectionError"}
  \/ exc.type = "HTTPError" /\ 500 <= exc.status /\ exc.status < 600

\* tenacity after an attempt: "returned", "raised" (reraise=True hands the
\* caller the exception of the last attempt) or "sleeping" before the next
AfterAttempt(exc, attempt) ==
  IF exc = NoException THEN "returned"
  ELSE IF ~Retryable(exc) THEN "raised"
  ELSE IF attempt >= MaxAttempts THEN "raised"
  ELSE "sleeping"

\* ------------------------------------------------------------ the read path
\* ---- parse_stats_query and StatsQueryForm
\* A query parameter is JNone when the query string lacks it, else the str
\* it carries.  request.GET.get(key, default) hands the form the str or the
\* int default.
DefaultPage == 1
DefaultPerPage == 10
MinPage == 1
MinPerPage == 1
MaxPerPage == 100
MaxNameLength == 100

GetParam(param, default) == IF param.t = "none" THEN JInt(default) ELSE param

\* int(str): an optional sign and decimal digits
IsSignedDigits(s) ==
  IF s # <<>> /\ Head(s) \in {"-", "+"} THEN IsDigits(Tail(s)) ELSE IsDigits(s)
ParseSigned(s) ==
  IF Head(s) = "-" THEN 0 - ParseInt(Tail(s))
  ELSE IF Head(s) = "+" THEN ParseInt(Tail(s))
  ELSE ParseInt(s)

\* forms.IntegerField(required=False).to_python: an int as it is, an empty
\* str as None, a str of digits as its value, anything else invalid
IntegerFieldClean(value) ==
  IF value.t = "int" THEN [ok |-> TRUE, empty |-> FALSE, v |-> value.v]
  ELSE IF Strip(value.v) = <<>> THEN [ok |-> TRUE, empty |-> TRUE, v |-> 0]
  ELSE IF IsSignedDigits(Strip(value.v))
       THEN [ok |-> TRUE, empty |-> FALSE, v |-> ParseSigned(Strip(value.v))]
       ELSE [ok |-> FALSE, empty |-> FALSE, v |-> 0]

\* mutant: page accepts 0
PageFieldOkFromZero(value) ==
  LET c == IntegerFieldClean(value) IN c.ok /\ (c.empty \/ c.v >= 0)

\* page = forms.IntegerField(min_value=1, required=False)
PageFieldOk(value) ==
  LET c == IntegerFieldClean(value) IN c.ok /\ (c.empty \/ c.v >= MinPage)

\* mutant: per_page has no upper limit
PerPageFieldOkNoMax(value) ==
  LET c == IntegerFieldClean(value) IN c.ok /\ (c.empty \/ c.v >= MinPerPage)

\* per_page = forms.IntegerField(min_value=1, max_value=100, required=False)
PerPageFieldOk(value) ==
  LET c == IntegerFieldClean(value)
  IN c.ok /\ (c.empty \/ (c.v >= MinPerPage /\ c.v <= MaxPerPage))

\* form.cleaned_data.get(field) or default: None and 0 give the default
CleanedOrDefault(value, default) ==
  LET c == IntegerFieldClean(value)
  IN IF c.empty \/ c.v = 0 THEN default ELSE c.v

Letters == Lower \cup UpperCase

\* the name handed to the form: request.GET.get("name", "").strip()
RawName(param) == IF param.t = "none" THEN <<>> ELSE Strip(param.v)

\* name = CharField(required=False, max_length=100, strip=True, validators=
\* [^[A-Za-z\s-]+$]) and clean_name: an empty name passes (and becomes
\* None), another one must keep to the characters and hold a letter
NameFieldOk(s) ==
  \/ Strip(s) = <<>>
  \/ /\ Len(Strip(s)) <= MaxNameLength
     /\ \A i \in 1..Len(Strip(s)) : Strip(s)[i] \in Letters \cup Space \cup {"-"}
     /\ \E i \in 1..Len(Strip(s)) : Strip(s)[i] \in Letters

\* parse_stats_query: ok is FALSE when it raises ValidationError; name is
\* <<>> for None
ParseStatsQuery(req) ==
  LET page == GetParam(req.page, DefaultPage)
      per_page == GetParam(req.per_page, DefaultPerPage)
      name == RawName(req.name)
  IN IF PageFieldOk(page) /\ PerPageFieldOk(per_page) /\ NameFieldOk(name)
     THEN [ok |-> TRUE,
           page |-> CleanedOrDefault(page, DefaultPage),
           per_page |-> CleanedOrDefault(per_page, DefaultPerPage),
           name |-> Strip(name)]
     ELSE [ok |-> FALSE, page |-> 0, per_page |-> 0, name |-> <<>>]

\* ---- the cache key
DigitChar(d) ==
  CASE d = 0 -> "0" [] d = 1 -> "1" [] d = 2 -> "2" [] d = 3 -> "3" [] d = 4 -> "4"
    [] d = 5 -> "5" [] d = 6 -> "6" [] d = 7 -> "7" [] d = 8 -> "8" [] d = 9 -> "9"

\* str(n) of a positive int
RECURSIVE IntToStr(_)
IntToStr(n) ==
  IF n < 10 THEN <<DigitChar(n)>> ELSE IntToStr(n \div 10) \o <<DigitChar(n % 10)>>

\* mutant: the name is left out of the key
CacheKeyNoName(page, per_page, name) ==
  [md5 |-> IntToStr(page) \o <<":">> \o IntToStr(per_page) \o <<":">>]

\* f"{page}:{per_page}:{name_filter or ''}" and its md5, which is taken to
\* have no collisions
CacheKey(page, per_page, name) ==
  [md5 |-> IntToStr(page) \o <<":">> \o IntToStr(per_page) \o <<":">> \o name]

\* timeout=60 * 5
CacheTimeout == 300

\* mutant: the entry is never found
CacheGetMiss(c, key, time) == [hit |-> FALSE, entry |-> [expires |-> 0]]

\* cache.get(key): the entry, unless there is none or it has expired
CacheGet(c, key, time) ==
  IF key \in DOMAIN c /\ time < c[key].expires
  THEN [hit |-> TRUE, entry |-> c[key]]
  ELSE [hit |-> FALSE, entry |-> [expires |-> 0]]

\* cache.set(key, value, timeout)
CacheSet(c, key, value, time) ==
  [k \in DOMAIN c \cup {key} |->
     IF k = key THEN [regions |-> value.regions, meta |-> value.meta,
                      expires |-> time + CacheTimeout]
     ELSE c[k]]

\* ---- get_region_stats
\* the order of two characters in the database's collation of names, taken
\* to be the order of their code points (the names of the model are made of
\* letters)
CharCode(c) ==
  CASE c = " " -> 32 [] c = "-" -> 45
    [] c = "A" -> 65 [] c = "B" -> 66 [] c = "L" -> 76 [] c = "R" -> 82 [] c = "S" -> 83
    [] c = "T" -> 84 [] c = "X" -> 88 [] c = "Y" -> 89
    [] c = "a" -> 97 [] c = "b" -> 98 [] c = "l" -> 108 [] c = "r" -> 114 [] c = "s" -> 115
    [] c = "t" -> 116 [] c = "x" -> 120 [] c = "y" -> 121
    [] OTHER -> 48

RECURSIVE NameLess(_, _)
NameLess(a, b) ==
  IF b = <<>> THEN FALSE
  ELSE IF a = <<>> THEN TRUE
  ELSE IF CharCode(Head(a)) # CharCode(Head(b)) THEN CharCode(Head(a)) < CharCode(Head(b))
  ELSE NameLess(Tail(a), Tail(b))

\* .order_by("name")
RECURSIVE OrderByName(_)
OrderByName(names) ==
  IF names = {} THEN <<>>
  ELSE LET first == CHOOSE n \in names : \A m \in names \ {n} : NameLess(n, m)
       IN <<first>> \o OrderByName(names \ {first})

\* the rows of Region LEFT OUTER JOIN Country for one region: its
\* countries, or one row of NULLs
NullCountry == [null |-> TRUE, name |-> <<>>, population |-> 0]
RECURSIVE MatchingRows(_, _)
MatchingRows(table, region) ==
  IF table = <<>> THEN <<>>
  ELSE IF Head(table).region = region
       THEN <<[null |-> FALSE, name |-> Head(table).name,
               population |-> Head(table).population]>> \o MatchingRows(Tail(table), region)
       ELSE MatchingRows(Tail(table), region)
JoinRows(table, region) ==
  IF MatchingRows(table, region) = <<>> THEN <<NullCountry>>
  ELSE MatchingRows(table, region)

\* mutant: COUNT(*) of the joined rows
CountRows(rows) == Len(rows)

\* Count("countries", distinct=True): the distinct countries, NULL apart
CountDistinct(rows) ==
  Cardinality({rows[i].name : i \in {j \in 1..Len(rows) : ~rows[j].null}})

\* Sum("countries__population"): NULL when there is nothing to add
RECURSIVE SumPopulation(_)
SumPopulation(rows) ==
  IF rows = <<>> THEN [null |-> TRUE, v |-> 0]
  ELSE LET rest == SumPopulation(Tail(rows))
       IN IF Head(rows).null THEN rest
          ELSE [null |-> FALSE, v |-> Head(rows).population + rest.v]

\* Coalesce(x, 0)
Coalesce(x, default) == IF x.null THEN default ELSE x.v

\* mutant: the names are compared as they are written
ContainsCase(name, part) ==
  \E off \in 0..(Len(name) - Len(part)) :
    \A i \in 1..Len(part) : name[off + i] = part[i]

\* name__icontains
IContains(name, part) ==
  \E off \in 0..(Len(name) - Len(part)) :
    \A i \in 1..Len(part) : UpperChar(name[off + i]) = UpperChar(part[i])

\* get_region_stats(name_filter): <<>> stands for None and for ""
GetRegionStats(storedRegions, table, name_filter) ==
  LET kept == IF name_filter # <<>>
              THEN {r \in storedRegions : IContains(r, Strip(name_filter))}
              ELSE storedRegions
      ordered == OrderByName(kept)
  IN [i \in 1..Len(ordered) |->
        [name |-> ordered[i],
         number_countries |-> CountDistinct(JoinRows(table, ordered[i])),
         total_population |-> Coalesce(SumPopulation(JoinRows(table, ordered[i])), 0)]]

\* ---- paginate_queryset and page_meta
\* mutant: a last page that is not full is not counted
NumPagesFloor(count, per_page) ==
  IF count < per_page THEN 1 ELSE count \div per_page

\* Paginator.num_pages: one page when there is nothing to show
NumPages(count, per_page) ==
  IF count = 0 THEN 1 ELSE (count + per_page - 1) \div per_page

\* paginate_queryset: Paginator.page raises EmptyPage below 1 and above
\* num_pages, and the helper then serves the last page
PageNumber(count, page, per_page) ==
  IF page < 1 \/ page > NumPages(count, per_page)
  THEN NumPages(count, per_page)
  ELSE page

\* Page.object_list: rows[bottom:top]
ObjectList(rows, number, per_page) ==
  LET bottom == (number - 1) * per_page
      top == IF bottom + per_page >= Len(rows) THEN Len(rows) ELSE bottom + per_page
  IN SubSeq(rows, bottom + 1, top)

\* page_meta
PageMeta(count, number, per_page) ==
  [total_regions |-> count,
   page |-> number,
   total_pages |-> NumPages(count, per_page),
   per_page |-> per_page,
   has_next |-> number < NumPages(count, per_page),
   has_previous |-> number > 1]

\* the value stats computes and stores on a miss
ComputeStats(storedRegions, table, q) ==
  LET rows == GetRegionStats(storedRegions, table, q.name)
      number == PageNumber(Len(rows), q.page, q.per_page)
  IN [regions |-> ObjectList(rows, number, q.per_page),
      meta |-> PageMeta(Len(rows), number, q.per_page)]

\* what the command's call of fetch_data can end with: NoException when it
\* returns the rows, or the exception of its last attempt (no connection, a
\* timeout, a 404, a 503, a payload that is no non-empty array, a failed
\* write of the artifact)
FetchResults ==
  {FetchOnce(o, TRUE) : o \in {x \in Outcomes : x.status \in {0, 200, 404, 503}}}

\* mutant: the exception of fetch_data is swallowed and handle goes on
AfterFetchGoesOn(exc) == "reset"

\* handle after the call of fetch_data, which is outside the try block and
\* ahead of the with block: an exception leaves handle at once
AfterFetch(exc) == IF exc = NoException THEN "reset" ELSE "failed"

\* ------------------------------------------------------------------ inputs
NameX == <<"X">>
NameY == <<"Y">>
RegionR == <<"R">>
RegionS == <<"S">>
CodeAA == <<"A", "A">>
CodeBB == <<"B", "B">>
CodeAAA == <<"A", "A", "A">>
CodeBBB == <<"B", "B", "B">>
TldTl == JStr(<<".", "t", "l">>)
AllKeys == RequiredKeys \cup {"topLevelDomain", "capital"}

RawRow(keys, name, region, a2, a3, pop, tld, capital) ==
  [keys |-> keys, name |-> name, region |-> region, alpha2Code |-> a2,
   alpha3Code |-> a3, population |-> pop, topLevelDomain |-> tld,
   capital |-> capital]

\* The rows of the feed: X as stored (to be stripped and uppercased, with
\* one entry of the TLD list to drop), X with another population, X with
\* another code and region, Y with X's alpha2Code, Y, Y with a code the
\* form accepts and the model rejects (its region is r, R in lower case), a
\* negative population, a missing key
Rows ==
  { RawRow(AllKeys, <<" ", "X">>, RegionR, <<"a", "a">>, <<"a", "a", "a">>, JInt(5),
           JList(<<TldTl, JInt(1)>>), <<>>),
    RawRow(AllKeys, NameX, RegionR, CodeAA, CodeAAA, JInt(7), JList(<<TldTl>>), <<>>),
    RawRow(AllKeys, NameX, RegionS, CodeBB, CodeAAA, JInt(5), JList(<<TldTl>>), <<>>),
    RawRow(AllKeys, NameY, RegionS, CodeAA, CodeBBB, JInt(5), JList(<<TldTl>>), <<>>),
    RawRow(AllKeys, NameY, RegionS, CodeBB, CodeBBB, JInt(5), JList(<<TldTl>>), <<>>),
    RawRow(AllKeys, NameY, <<"r">>, <<"1", "A">>, CodeBBB, JInt(5), JList(<<TldTl>>), <<>>),
    RawRow(AllKeys, NameY, RegionS, CodeBB, CodeBBB, JInt(-1), JList(<<TldTl>>), <<>>),
    RawRow(AllKeys \ {"alpha2Code"}, NameY, RegionS, <<>>, CodeBBB, JInt(5),
           JList(<<TldTl>>), <<>>) }

Datasets == UNION {[1..n -> Rows] : n \in 1..MaxRows}

StoredX ==
  [name |-> NameX, alpha2Code |-> CodeAA, alpha3Code |-> CodeAAA, population |-> 5,
   topLevelDomain |-> JsonDumps(JList(<<TldTl>>)), capital |-> JNone, region |-> RegionR]
StoredY ==
  [name |-> NameY, alpha2Code |-> CodeBB, alpha3Code |-> CodeBBB, population |-> 5,
   topLevelDomain |-> JsonDumps(JList(<<TldTl>>)), capital |-> JNone, region |-> RegionS]

\* The tables before the first run: empty, one country and a region without
\* countries, two countries
InitialStores ==
  { [regions |-> {}, countries |-> <<>>],
    [regions |-> {RegionR, RegionS}, countries |-> <<StoredX>>],
    [regions |-> {RegionR, RegionS}, countries |-> <<StoredX, StoredY>>] }

\* ---- validate_row
MaxTlds == 2

\* the entries of a topLevelDomain list: .tl, .tl between blanks, .t-1,
\* blanks, no dot, too short, an int, and an entry of 2000 characters
LongEntry == JStr([i \in 1..MaxTldText |-> "x"])
TldEntries ==
  { TldTl,
    JStr(<<" ", ".", "t", "l", " ">>),
    JStr(<<".", "t", "-", "1">>),
    JStr(<<" ">>),
    JStr(<<"t", "l">>),
    JStr(<<".", "t">>),
    JInt(1),
    LongEntry }
TldLists == UNION {[1..n -> TldEntries] : n \in 0..MaxTlds}

\* what the feed can carry as topLevelDomain: a list, a str holding the
\* JSON text of a list, a str that is no JSON, an int, null
TldValues ==
  {JList(items) : items \in TldLists}
    \cup {JText(JList(items)) : items \in TldLists}
    \cup {JStr(<<"t", "l">>), JInt(1), JNone}

\* the codes of the feed: lower case, mixed case, between blanks, a blank
\* in place of a character, too short, too long
Alpha2Inputs ==
  { <<"a", "a">>, <<"A", "b">>, <<" ", "a", "a", " ">>, <<"a", " ">>, <<"a">>,
    <<"a", "a", "a">> }
Alpha3Inputs ==
  { <<"a", "a", "a">>, <<"A", "a", "B">>, <<"a", "a", "a", " ">>, <<" ", "a", "a">>,
    <<"a", "a">>, <<"a", "a", "a", "a">> }
CodeRows ==
  {RawRow(AllKeys, NameX, RegionR, a2, a3, JInt(5), JList(<<TldTl>>), <<>>) :
     a2 \in Alpha2Inputs, a3 \in Alpha3Inputs}

\* rows for validate_row: every topLevelDomain on an otherwise valid row,
\* the row without the key, every pair of codes, and the rows of the feed
ValidatorRows ==
  {RawRow(AllKeys, NameX, RegionR, CodeAA, CodeAAA, JInt(5), tld, <<>>) : tld \in TldValues}
    \cup {RawRow(AllKeys \ {"topLevelDomain"}, NameX, RegionR, CodeAA, CodeAAA, JInt(5),
                 JNone, <<>>)}
    \cup CodeRows
    \cup Rows

\* ---- paginate_queryset
MaxTotal == 5
MaxPageIn == 6
MaxPerPageIn == 3

\* the rows of a queryset of total items, each standing for its position
Items(total) == [i \in 1..total |-> i]

\* the per_page values: the small ones and the largest the form lets through
PerPages == (1..MaxPerPageIn) \cup {MaxPerPage}

\* ---- the read path
MaxRequests == 2
MaxClock == 300
TickSeconds == 150

\* what time.time() - start_time can come to, in ms
ExecTimes == {1, 2}

RegionRa == <<"R", "a">>
StoredB ==
  [name |-> <<"B">>, alpha2Code |-> <<"A", "B">>, alpha3Code |-> <<"A", "B", "B">>,
   population |-> 7, topLevelDomain |-> JsonDumps(JList(<<>>)), capital |-> JNone,
   region |-> RegionR]

\* the tables a stats request can meet: empty, two regions of which one
\* has no country, three regions of which one has two countries and one has
\* none
ReadStores ==
  { [regions |-> {}, countries |-> <<>>],
    [regions |-> {RegionR, RegionS}, countries |-> <<StoredX>>],
    [regions |-> {RegionR, RegionS, RegionRa},
     countries |-> <<StoredX, StoredY, StoredB>>] }

Query(page, per_page, name) == [page |-> page, per_page |-> per_page, name |-> name]

\* the query strings: none; page 0, -1, x, 2; per_page 1 alone and with
\* page 2; per_page 0, 101, 100, -1; name r, " r ", -
Requests ==
  { Query(JNone, JNone, JNone),
    Query(JStr(<<"0">>), JNone, JNone),
    Query(JStr(<<"-", "1">>), JNone, JNone),
    Query(JStr(<<"x">>), JNone, JNone),
    Query(JStr(<<"2">>), JNone, JNone),
    Query(JNone, JStr(<<"1">>), JNone),
    Query(JStr(<<"2">>), JStr(<<"1">>), JNone),
    Query(JNone, JStr(<<"0">>), JNone),
    Query(JNone, JStr(<<"1", "0", "1">>), JNone),
    Query(JNone, JStr(<<"1", "0", "0">>), JNone),
    Query(JNone, JStr(<<"-", "1">>), JNone),
    Query(JNone, JNone, JStr(<<"r">>)),
    Query(JNone, JNone, JStr(<<" ", "r", " ">>)),
    Query(JNone, JNone, JStr(<<"-">>)) }

\* ------------------------------------------------------------------- state
VARIABLES
  regions,            \* the Region table: the stored names
  countries,          \* the Country table, in rowid order
  before,             \* the tables when the command started
  txn,                \* "none", "open", "committed", "rolledback"
  cache_clears,       \* cache.clear() calls of the current run
  pc,                 \* where handle is
  batch_size, dry_run, reset,   \* the options of the current run
  data,               \* what fetch_data returned
  idx,                \* the next row of data, from 1
  regions_by_name, countries_by_name, to_create, to_update,
  created_count, updated_count, skipped_count,
  error,              \* the exception that ended the run, "" when none
  can_return_ids,     \* the backend sets the pk of bulk-created objects
  runs,               \* commands started so far
  prev,               \* the outcome of the previous run
  fetch_pc,           \* fetch_data: "idle", "attempt", "sleeping", "returned", "raised"
  attempt_number,     \* GET attempts made by the current call
  save_response,      \* the argument of the current call
  history,            \* what each attempt of the current call met
  fetch_exc,          \* the exception the call raised to its caller
  constructed,        \* the names of the Regions the current run constructed
  enqueued,           \* the names appended to each queue in the current run
  flushed,            \* the names each queue handed to bulk_create / bulk_update
  fetch_calls,        \* calls of fetch_data the current command has made
  cache,              \* the cache: key -> entry, with the time it expires
  served,             \* per key, the response of the request that stored the entry
  response,           \* what the last stats request was answered
  now,                \* the clock, in seconds
  requests,           \* stats requests answered so far
  v_row,              \* the row of the last validate_row call
  v_out,              \* what that call returned or raised
  pg_in,              \* the arguments of the last paginate_queryset call
  pg_out,             \* the page it returned: its object_list and its page_meta
  race                \* the stats request in flight beside an import

vars ==
  <<regions, countries, before, txn, cache_clears, pc, batch_size, dry_run, reset,
    data, idx, regions_by_name, countries_by_name, to_create, to_update,
    created_count, updated_count, skipped_count, error, can_return_ids, runs, prev,
    fetch_calls, constructed, enqueued, flushed, fetch_pc, attempt_number, save_response, history, fetch_exc,
    cache, served, response, now, requests, v_row, v_out, pg_in, pg_out, race>>

importVars ==
  <<regions, countries, before, txn, cache_clears, pc, batch_size, dry_run, reset,
    data, idx, regions_by_name, countries_by_name, to_create, to_update,
    created_count, updated_count, skipped_count, error, can_return_ids, runs, prev,
    fetch_calls, constructed, enqueued, flushed>>

\* the command's variables other than the two tables
commandVars ==
  <<before, txn, cache_clears, pc, batch_size, dry_run, reset, data, idx,
    regions_by_name, countries_by_name, to_create, to_update, created_count,
    updated_count, skipped_count, error, can_return_ids, runs, prev, fetch_calls,
    constructed, enqueued, flushed>>

fetchVars == <<fetch_pc, attempt_number, save_response, history, fetch_exc>>

readVars == <<cache, served, response, now, requests>>

validatorVars == <<v_row, v_out>>

pageVars == <<pg_in, pg_out>>

raceVars == <<race>>

EmptyMap == [n \in {} |-> TRUE]

\* cache.clear()
CacheClear(c) == EmptyMap

\* no stats request answered yet, no validate_row call made yet
NoResponse ==
  [status |-> 0, body |-> EmptyMap, request |-> EmptyMap, elapsed |-> 0,
   cache_get |-> FALSE, queried |-> FALSE]
NoRow == [keys |-> {}]
NoPageIn == [total |-> 0, page |-> 0, per_page |-> 0]
NoPageOut == [regions |-> <<>>, meta |-> EmptyMap]
NoRace ==
  [phase |-> "none", q |-> EmptyMap, hit |-> FALSE, value |-> EmptyMap, pre |-> FALSE,
   after_import |-> FALSE, from_pre |-> FALSE, entry_pre |-> EmptyMap]
NoOutcome == [ok |-> FALSE, cleaned |-> EmptyMap]

NoQueued == [create |-> <<>>, update |-> <<>>]

NoPrev ==
  [ran |-> FALSE, dry_run |-> FALSE, reset |-> FALSE, batch_size |-> 0,
   created |-> 0, updated |-> 0, skipped |-> 0]

Init ==
  /\ \E s \in InitialStores :
       /\ regions = s.regions
       /\ countries = s.countries
       /\ before = s
  /\ can_return_ids \in BOOLEAN
  /\ txn = "none"
  /\ cache_clears = 0
  /\ pc = "idle"
  /\ batch_size = 0
  /\ dry_run = FALSE
  /\ reset = FALSE
  /\ data = <<>>
  /\ idx = 1
  /\ regions_by_name = EmptyMap
  /\ countries_by_name = EmptyMap
  /\ to_create = <<>>
  /\ to_update = <<>>
  /\ created_count = 0
  /\ updated_count = 0
  /\ skipped_count = 0
  /\ error = ""
  /\ runs = 0
  /\ prev = NoPrev
  /\ fetch_pc = "idle"
  /\ attempt_number = 0
  /\ save_response = FALSE
  /\ history = <<>>
  /\ fetch_exc = NoException
  /\ fetch_calls = 0
  /\ constructed = <<>>
  /\ enqueued = NoQueued
  /\ flushed = NoQueued
  /\ cache = EmptyMap
  /\ served = EmptyMap
  /\ response = NoResponse
  /\ now = 0
  /\ requests = 0
  /\ v_row = NoRow
  /\ v_out = NoOutcome
  /\ pg_in = NoPageIn
  /\ pg_out = NoPageOut
  /\ race = NoRace

\* the locals and tables as the record the step functions work on
Locals ==
  [regions |-> regions, countries |-> countries, rbn |-> regions_by_name,
   cbn |-> countries_by_name, to_create |-> to_create, to_update |-> to_update,
   created |-> created_count, updated |-> updated_count, skipped |-> skipped_count,
   constructed |-> constructed, enqueued |-> enqueued, flushed |-> flushed, err |-> ""]

SetLocals(st) ==
  /\ regions' = st.regions
  /\ countries' = st.countries
  /\ regions_by_name' = st.rbn
  /\ countries_by_name' = st.cbn
  /\ to_create' = st.to_create
  /\ to_update' = st.to_update
  /\ created_count' = st.created
  /\ updated_count' = st.updated
  /\ skipped_count' = st.skipped
  /\ constructed' = st.constructed
  /\ enqueued' = st.enqueued
  /\ flushed' = st.flushed

\* mutant: a dry run goes on to the commit and the cache like a real run
AfterReturnAlways(dry) == "commit"

\* handle after process_records has returned: a dry run returns at once,
\* a real run leaves the with block and goes on to clear the cache
AfterReturn(dry) == IF dry THEN "done" ELSE "commit"

\* mutant: the exception is reported and the writes made so far are kept
RaiseNoRollback(st) ==
  /\ regions' = st.regions
  /\ countries' = st.countries
  /\ txn' = IF txn = "open" THEN "rolledback" ELSE txn
  /\ error' = st.err
  /\ pc' = "failed"
  /\ UNCHANGED <<regions_by_name, countries_by_name, to_create, to_update,
                 created_count, updated_count, skipped_count, constructed,
                 enqueued, flushed>>

\* An exception leaves the with block: transaction.atomic() rolls the tables
\* back, contextlib.suppress() has nothing to undo; handle raises CommandError
Raise(st) ==
  /\ regions' = IF txn = "open" THEN before.regions ELSE st.regions
  /\ countries' = IF txn = "open" THEN before.countries ELSE st.countries
  /\ txn' = IF txn = "open" THEN "rolledback" ELSE txn
  /\ error' = st.err
  /\ pc' = "failed"
  /\ UNCHANGED <<regions_by_name, countries_by_name, to_create, to_update,
                 created_count, updated_count, skipped_count, constructed,
                 enqueued, flushed>>

\* ----------------------------------------------------------------- actions
\* --batch-size is any int: negative, zero, or positive up to MaxBatch
BatchSizes == (0 - 1)..MaxBatch

\* mutant: only a negative batch size is refused
BatchSizeOkFromZero(bs) == bs >= 0

\* handle's check of the option: "if batch_size <= 0: raise CommandError"
BatchSizeOk(bs) == bs > 0

\* handle, up to the with block: the batch size check, then fetch_data,
\* which returns the rows d or raises exc.  A second command is the first
\* one invoked again, with or without --dry-run, its fetch returning the
\* same dataset.
Handle(bs, dry, rst, exc, d) ==
  /\ UNCHANGED <<fetch_pc, attempt_number, save_response, history>>
  /\ UNCHANGED <<readVars, validatorVars, pageVars, raceVars>>
  /\ pc \in {"idle", "done"}
  /\ runs < MaxRuns
  /\ runs > 0 => d = data /\ bs = batch_size /\ rst = reset
  /\ runs' = runs + 1
  /\ prev' = IF runs = 0 THEN NoPrev
             ELSE [ran |-> TRUE, dry_run |-> dry_run, reset |-> reset,
                   batch_size |-> batch_size, created |-> created_count,
                   updated |-> updated_count, skipped |-> skipped_count]
  /\ batch_size' = bs
  /\ dry_run' = dry
  /\ reset' = rst
  /\ before' = [regions |-> regions, countries |-> countries]
  /\ cache_clears' = 0
  /\ idx' = 1
  /\ regions_by_name' = EmptyMap
  /\ countries_by_name' = EmptyMap
  /\ to_create' = <<>>
  /\ to_update' = <<>>
  /\ created_count' = 0
  /\ updated_count' = 0
  /\ skipped_count' = 0
  /\ constructed' = <<>>
  /\ enqueued' = NoQueued
  /\ flushed' = NoQueued
  /\ IF ~BatchSizeOk(bs)
     THEN /\ pc' = "failed" /\ error' = "CommandError" /\ txn' = "none"
          /\ data' = data /\ fetch_exc' = NoException /\ fetch_calls' = 0
     ELSE /\ pc' = AfterFetch(exc)
          /\ fetch_calls' = 1
          /\ fetch_exc' = exc
          /\ error' = exc.type
          /\ txn' = IF pc' = "failed" \/ dry THEN "none" ELSE "open"
          /\ data' = IF exc = NoException THEN d ELSE data
  /\ UNCHANGED <<regions, countries, can_return_ids>>

\* process_records: the optional reset
Reset ==
  /\ UNCHANGED <<fetchVars, readVars, validatorVars, pageVars, raceVars>>
  /\ pc = "reset"
  /\ pc' = "preload"
  /\ LET db == IF reset /\ ~dry_run
               THEN ResetDatabase([regions |-> regions, countries |-> countries])
               ELSE [regions |-> regions, countries |-> countries]
     IN regions' = db.regions /\ countries' = db.countries
  /\ UNCHANGED <<before, txn, cache_clears, batch_size, dry_run, reset, data, idx,
                 regions_by_name, countries_by_name, to_create, to_update,
                 created_count, updated_count, skipped_count, error,
                 can_return_ids, runs, prev, fetch_calls,
                 constructed, enqueued, flushed>>

\* process_records: the two maps are loaded from the tables
Preload ==
  /\ UNCHANGED <<fetchVars, readVars, validatorVars, pageVars, raceVars>>
  /\ pc = "preload"
  /\ pc' = "rows"
  /\ regions_by_name' = PreloadRegions(regions)
  /\ countries_by_name' = PreloadCountries(countries)
  /\ UNCHANGED <<regions, countries, before, txn, cache_clears, batch_size, dry_run,
                 reset, data, idx, to_create, to_update, created_count,
                 updated_count, skipped_count, error, can_return_ids, runs, prev, fetch_calls,
                 constructed, enqueued, flushed>>

\* process_records: one row of the loop, with the flush it may trigger
ProcessRow ==
  /\ UNCHANGED <<fetchVars, readVars, validatorVars, pageVars, raceVars>>
  /\ pc = "rows"
  /\ idx <= Len(data)
  /\ \E st \in {RowStep(Locals, data[idx], batch_size, dry_run, can_return_ids)} :
        IF st.err # ""
        THEN Raise(st) /\ UNCHANGED idx
        ELSE SetLocals(st) /\ idx' = idx + 1 /\ UNCHANGED <<pc, txn, error>>
  /\ UNCHANGED <<before, cache_clears, batch_size, dry_run, reset, data,
                 can_return_ids, runs, prev, fetch_calls>>

\* process_records: the tail flushes and the return; a dry run returns from
\* handle inside the with block
FlushTail ==
  /\ UNCHANGED <<fetchVars, readVars, validatorVars, pageVars, raceVars>>
  /\ pc = "rows"
  /\ idx > Len(data)
  /\ \E st \in {TailStep(Locals, dry_run, can_return_ids)} :
        IF st.err # ""
        THEN Raise(st)
        ELSE /\ SetLocals(st)
             /\ pc' = AfterReturn(dry_run)
             /\ UNCHANGED <<txn, error>>
  /\ UNCHANGED <<before, cache_clears, batch_size, dry_run, reset, data, idx,
                 can_return_ids, runs, prev, fetch_calls>>

\* handle: the with block of transaction.atomic() exits normally
Commit ==
  /\ UNCHANGED <<fetchVars, readVars, validatorVars, pageVars, raceVars>>
  /\ pc = "commit"
  /\ txn' = "committed"
  /\ pc' = "clear"
  /\ UNCHANGED <<regions, countries, before, cache_clears, batch_size, dry_run,
                 reset, data, idx, regions_by_name, countries_by_name, to_create,
                 to_update, created_count, updated_count, skipped_count, error,
                 can_return_ids, runs, prev, fetch_calls,
                 constructed, enqueued, flushed>>

\* handle: cache.clear() and the summary line
ClearCache ==
  /\ UNCHANGED <<fetchVars, validatorVars, pageVars, raceVars>>
  /\ cache' = CacheClear(cache)
  /\ served' = EmptyMap
  /\ UNCHANGED <<response, now, requests>>
  /\ pc = "clear"
  /\ cache_clears' = cache_clears + 1
  /\ pc' = "done"
  /\ UNCHANGED <<regions, countries, before, txn, batch_size, dry_run, reset, data,
                 idx, regions_by_name, countries_by_name, to_create, to_update,
                 created_count, updated_count, skipped_count, error,
                 can_return_ids, runs, prev, fetch_calls,
                 constructed, enqueued, flushed>>

Next ==
  \/ \E bs \in (IF runs = 0 THEN BatchSizes ELSE {batch_size}), dry \in BOOLEAN,
        rst \in (IF runs = 0 THEN BOOLEAN ELSE {reset}),
        exc \in (IF runs = 0 THEN FetchResults ELSE {NoException}),
        d \in (IF runs = 0 THEN Datasets ELSE {data}) : Handle(bs, dry, rst, exc, d)
  \/ Reset
  \/ Preload
  \/ ProcessRow
  \/ FlushTail
  \/ Commit
  \/ ClearCache

Spec == Init /\ [][Next]_vars

\* ------------------------------------------------------ fetch_data actions
\* a caller calls fetch_data(save_response)
FetchCall(save) ==
  /\ fetch_pc = "idle"
  /\ fetch_pc' = "attempt"
  /\ save_response' = save
  /\ attempt_number' = 0
  /\ history' = <<>>
  /\ fetch_exc' = NoException
  /\ UNCHANGED <<importVars, readVars, validatorVars, pageVars, raceVars>>

\* one attempt: the GET, the checks of the payload, and tenacity's decision
Attempt(o) ==
  /\ fetch_pc = "attempt"
  /\ attempt_number' = attempt_number + 1
  /\ history' = Append(history, o)
  /\ LET exc == FetchOnce(o, save_response)
         after == AfterAttempt(exc, attempt_number + 1)
     IN /\ fetch_pc' = after
        /\ fetch_exc' = IF after = "raised" THEN exc ELSE NoException
  /\ UNCHANGED save_response
  /\ UNCHANGED <<importVars, readVars, validatorVars, pageVars, raceVars>>

\* wait_exponential(multiplier=1, max=10) has elapsed
Sleep ==
  /\ fetch_pc = "sleeping"
  /\ fetch_pc' = "attempt"
  /\ UNCHANGED <<attempt_number, save_response, history, fetch_exc>>
  /\ UNCHANGED <<importVars, readVars, validatorVars, pageVars, raceVars>>

NextFetch ==
  \/ \E save \in BOOLEAN : FetchCall(save)
  \/ \E o \in Outcomes : Attempt(o)
  \/ Sleep

\* the API client alone; the call, once made, runs on
FetchSpec == Init /\ [][NextFetch]_vars /\ WF_vars(NextFetch)

\* ------------------------------------------------------ validate_row action
\* DataValidator.validate_row(row, index): the cleaned dict, or
\* CountryDataValidationError
ValidateCall(row) ==
  /\ v_row' = row
  /\ v_out' = IF ValidateRowOk(row)
              THEN [ok |-> TRUE, cleaned |-> ValidateRow(row)]
              ELSE [ok |-> FALSE, cleaned |-> EmptyMap]
  /\ UNCHANGED <<importVars, fetchVars, readVars, pageVars, raceVars>>

NextValidate == \E row \in ValidatorRows : ValidateCall(row)

\* the validator alone, called on one row after another
ValidatorInit == Init /\ regions = {} /\ ~can_return_ids

ValidatorSpec == ValidatorInit /\ [][NextValidate]_vars

\* ------------------------------------------------- paginate_queryset action
\* paginate_queryset(queryset, page, per_page) and page_meta(page_obj), with
\* the page and per_page parse_stats_query lets through
PaginateCall(total, page, per_page) ==
  /\ pg_in' = [total |-> total, page |-> page, per_page |-> per_page]
  /\ pg_out' =
       [regions |-> ObjectList(Items(total), PageNumber(total, page, per_page), per_page),
        meta |-> PageMeta(total, PageNumber(total, page, per_page), per_page)]
  /\ UNCHANGED <<importVars, fetchVars, readVars, validatorVars, raceVars>>

NextPaginate ==
  \E total \in 0..MaxTotal, page \in 1..MaxPageIn, per_page \in PerPages :
    PaginateCall(total, page, per_page)

\* the pagination helpers alone, called on one queryset after another
PageInit == Init /\ regions = {} /\ ~can_return_ids

PageSpec == PageInit /\ [][NextPaginate]_vars

\* ------------------------------------------------------------ stats actions
\* stats: one GET of the endpoint, answered.  elapsed is the time the view
\* measures; cache_get and queried record whether the cache and the
\* aggregation query were consulted.
Stats(req, elapsed) ==
  /\ requests < MaxRequests
  /\ requests' = requests + 1
  /\ \E q \in {ParseStatsQuery(req)} :
       IF ~q.ok
       THEN /\ response' = [status |-> 400, body |-> [error |-> "ValidationError"],
                            request |-> req, elapsed |-> elapsed,
                            cache_get |-> FALSE, queried |-> FALSE]
            /\ UNCHANGED <<cache, served>>
       ELSE \E got \in {CacheGet(cache, CacheKey(q.page, q.per_page, q.name), now)} :
            \E value \in {IF got.hit
                          THEN [regions |-> got.entry.regions, meta |-> got.entry.meta]
                          ELSE ComputeStats(regions, countries, q)} :
              /\ cache' = IF got.hit THEN cache
                          ELSE CacheSet(cache, CacheKey(q.page, q.per_page, q.name),
                                        value, now)
              /\ served' = IF got.hit THEN served
                           ELSE (<<q.page, q.per_page, q.name>> :>
                                   [regions |-> value.regions, meta |-> value.meta,
                                    at |-> now]) @@ served
              /\ response' =
                   [status |-> 200,
                    body |-> [regions |-> value.regions,
                              meta |-> ("execution_time_ms" :> elapsed) @@ value.meta],
                    request |-> req, elapsed |-> elapsed,
                    cache_get |-> TRUE, queried |-> ~got.hit]
  /\ UNCHANGED <<now, regions, countries, commandVars, fetchVars, validatorVars, pageVars, raceVars>>

\* an import commits: the tables are what it wrote
StoreWrite(s) ==
  /\ [regions |-> regions, countries |-> countries] # s
  /\ regions' = s.regions
  /\ countries' = s.countries
  /\ UNCHANGED <<cache, served, response, now, requests>>
  /\ UNCHANGED <<commandVars, fetchVars, validatorVars, pageVars, raceVars>>

\* the import's cache.clear(), after its commit
CacheCleared ==
  /\ cache # EmptyMap
  /\ cache' = CacheClear(cache)
  /\ served' = EmptyMap
  /\ UNCHANGED <<response, now, requests>>
  /\ UNCHANGED <<importVars, fetchVars, validatorVars, pageVars, raceVars>>

\* time passes
Tick ==
  /\ now + TickSeconds <= MaxClock
  /\ now' = now + TickSeconds
  /\ UNCHANGED <<cache, served, response, requests>>
  /\ UNCHANGED <<importVars, fetchVars, validatorVars, pageVars, raceVars>>

NextRead ==
  \/ \E req \in Requests, elapsed \in ExecTimes : Stats(req, elapsed)
  \/ \E s \in ReadStores : StoreWrite(s)
  \/ CacheCleared
  \/ Tick

\* the read path, with the tables changing under it; it starts on the
\* empty tables
ReadInit == Init /\ regions = {} /\ ~can_return_ids

ReadSpec == ReadInit /\ [][NextRead]_vars

\* ------------------------------------------- stats beside a running import
\* stats, in the two steps another process can come between: first the
\* validation, cache.get and, on a miss, the aggregation query and the
\* pagination; then, on a miss, cache.set, and the response.  race.pre
\* tells that the value was computed from the tables before the import's
\* commit, race.entry_pre tells it of each entry of the cache,
\* race.after_import that the request began after the import had finished.
StatsRead(req, elapsed) ==
  /\ race.phase # "read"
  /\ requests < MaxRequests
  /\ \E q \in {ParseStatsQuery(req)} :
       IF ~q.ok
       THEN /\ response' = [status |-> 400, body |-> [error |-> "ValidationError"],
                            request |-> req, elapsed |-> elapsed,
                            cache_get |-> FALSE, queried |-> FALSE]
            /\ requests' = requests + 1
            /\ race' = [NoRace EXCEPT !.phase = "replied", !.entry_pre = race.entry_pre]
       ELSE \E got \in {CacheGet(cache, CacheKey(q.page, q.per_page, q.name), now)} :
            /\ race' =
                 [phase |-> "read", q |-> q, hit |-> got.hit,
                  value |-> IF got.hit
                            THEN [regions |-> got.entry.regions, meta |-> got.entry.meta]
                            ELSE ComputeStats(regions, countries, q),
                  pre |-> ~got.hit /\ txn # "committed",
                  after_import |-> pc = "done",
                  from_pre |-> got.hit /\ race.entry_pre[CacheKey(q.page, q.per_page, q.name)],
                  entry_pre |-> race.entry_pre]
            /\ response' = [NoResponse EXCEPT !.request = req, !.elapsed = elapsed]
            /\ UNCHANGED requests
  /\ UNCHANGED <<cache, served, now>>
  /\ UNCHANGED <<importVars, fetchVars, validatorVars, pageVars>>

StatsReply ==
  /\ race.phase = "read"
  /\ race' = [race EXCEPT !.phase = "replied",
                          !.entry_pre =
                            IF race.hit THEN @
                            ELSE [k \in DOMAIN @ \cup {CacheKey(race.q.page, race.q.per_page,
                                                                race.q.name)} |->
                                    IF k = CacheKey(race.q.page, race.q.per_page, race.q.name)
                                    THEN race.pre ELSE @[k]]]
  /\ cache' = IF race.hit THEN cache
              ELSE CacheSet(cache, CacheKey(race.q.page, race.q.per_page, race.q.name),
                            race.value, now)
  /\ response' =
       [status |-> 200,
        body |-> [regions |-> race.value.regions,
                  meta |-> ("execution_time_ms" :> response.elapsed) @@ race.value.meta],
        request |-> response.request, elapsed |-> response.elapsed,
        cache_get |-> TRUE, queried |-> ~race.hit]
  /\ requests' = requests + 1
  /\ UNCHANGED <<served, now>>
  /\ UNCHANGED <<importVars, fetchVars, validatorVars, pageVars>>

\* the import beside it, up to the end of its with block: what it wrote
\* becomes visible to the view at the commit; cache.clear() is the next step
CommitImport(s) ==
  /\ pc = "idle"
  /\ [regions |-> regions, countries |-> countries] # s
  /\ regions' = s.regions
  /\ countries' = s.countries
  /\ txn' = "committed"
  /\ pc' = "clear"
  /\ runs' = runs + 1
  /\ batch_size' = 1
  /\ UNCHANGED <<before, cache_clears, dry_run, reset, data, idx, regions_by_name,
                 countries_by_name, to_create, to_update, created_count, updated_count,
                 skipped_count, error, can_return_ids, prev, fetch_calls, constructed,
                 enqueued, flushed>>
  /\ UNCHANGED <<fetchVars, readVars, validatorVars, pageVars, raceVars>>

NextRace ==
  \/ \E req \in Requests, elapsed \in ExecTimes : StatsRead(req, elapsed)
  \/ StatsReply
  \/ \E s \in ReadStores : CommitImport(s)
  \/ ClearCache

\* one import and the stats requests around it, on tables that hold a country
RaceInit == Init /\ countries = <<StoredX>> /\ ~can_return_ids

RaceSpec == RaceInit /\ [][NextRace]_vars

\* ------------------------------------------------------------------ claims
\* the previous command was a successful import that wrote (no dry run)
\* without reset, and the present one has returned from process_records
SecondRunReturned ==
  /\ prev.ran
  /\ ~prev.dry_run
  /\ ~prev.reset
  /\ pc \in {"commit", "clear", "done"}

\* C1: when a non-dry-run import without reset has completed and the same
\* dataset is imported again, the second run reports created = 0,
\* updated = 0 and skipped = N, the number of rows.
C1_Idempotent ==
  SecondRunReturned =>
    created_count = 0 /\ updated_count = 0 /\ skipped_count = Len(data)

\* the names of the valid rows of a dataset are pairwise different
ValidNames(d) == {ValidateRow(d[i]).name : i \in {j \in 1..Len(d) : ValidateRowOk(d[j])}}
DistinctNames(d) ==
  \A i, j \in 1..Len(d) :
    (i # j /\ ValidateRowOk(d[i]) /\ ValidateRowOk(d[j]))
      => ValidateRow(d[i]).name # ValidateRow(d[j]).name


Returned == pc \in {"commit", "clear", "done"}
Tables == [regions |-> regions, countries |-> countries]

\* C2: a non-dry-run import that fails leaves the tables as they were when
\* the command started, and the transaction is committed only once
\* process_records has returned.
C2_AllOrNothing ==
  /\ (pc = "failed" /\ ~dry_run) => Tables = before
  /\ txn = "committed" <=> (~dry_run /\ pc \in {"clear", "done"})

\* a run that failed on a constraint at its second row, after reset had
\* deleted the rows and the first row had saved a Region anew
C2_Witness ==
  /\ pc = "failed"
  /\ txn = "rolledback"
  /\ reset
  /\ error = "IntegrityError"
  /\ before.countries # <<>>
  /\ DOMAIN regions_by_name # {}
  /\ idx = 2

\* C3: a dry run leaves the Region and Country tables exactly as they were
\* when the command started, at every step, with reset on or off.
C3_DryRunFrame == (dry_run /\ runs > 0) => Tables = before

\* a dry run with reset on a populated store that decided a create and
\* built a Region in memory
C3_Witness ==
  /\ dry_run
  /\ reset
  /\ pc = "done"
  /\ before.countries # <<>>
  /\ created_count + updated_count > 0

\* C4: a dry run returns the counts that the real run with the same flags,
\* started from the same tables, returns.
C4_DryRunSameCounts ==
  (prev.ran /\ prev.dry_run /\ ~dry_run /\ Returned) =>
    /\ created_count = prev.created
    /\ updated_count = prev.updated
    /\ skipped_count = prev.skipped

\* ---- rows and what the run decides for them
Cleaned(i) == ValidateRow(data[i])
ValidRow(i) == ValidateRowOk(data[i])
StoredBefore(name) == \E k \in 1..Len(before.countries) : before.countries[k].name = name
RowBefore(name) == CHOOSE r \in Range(before.countries) : r.name = name
RowNow(name) == CHOOSE r \in Range(countries) : r.name = name
SameFields(row, cleaned) == \A f \in MutableFields : row[f] = cleaned[f]
\* no other valid row of the dataset carries the name of row i
OnlyRowOfName(i) ==
  \A j \in 1..Len(data) : (j # i /\ ValidRow(j)) => Cleaned(j).name # Cleaned(i).name

\* the region of the row at idx has a primary key once it is resolved
RegionHasPk(name) ==
  IF name \in DOMAIN regions_by_name THEN regions_by_name[name] ELSE ~dry_run

\* the row at idx is rejected by the form, or it is a new Country that
\* full_clean() rejects
RowRejected ==
  \/ ~ValidRow(idx)
  \/ /\ ValidRow(idx)
     /\ Cleaned(idx).name \notin DOMAIN countries_by_name
     /\ ~CountryFullCleanOk(Cleaned(idx), RegionHasPk(Cleaned(idx).region), countries)

C6_CountedOnce ==
  /\ pc = "rows" => created_count + updated_count + skipped_count = idx - 1
  /\ Returned => created_count + updated_count + skipped_count = Len(data)

\* a real run with batch_size 1 that flushed a create and an update
C6_Witness ==
  /\ Returned
  /\ ~dry_run
  /\ batch_size = 1
  /\ created_count = 1
  /\ updated_count = 1

\* the Country of that name is stored once, with the fields of row i
StoredAsRow(i) ==
  /\ Cardinality({k \in 1..Len(countries) : countries[k].name = Cleaned(i).name}) = 1
  /\ SameFields(RowNow(Cleaned(i).name), Cleaned(i))

\* the step handles a valid row of a real run without reset whose Country
\* was stored before the run, and raises nothing
UpdateStep ==
  /\ pc = "rows"
  /\ idx <= Len(data)
  /\ ~dry_run
  /\ ~reset
  /\ ValidRow(idx)
  /\ StoredBefore(Cleaned(idx).name)
  /\ pc' = "rows"

CountedAgainstStored ==
  IF SameFields(RowBefore(Cleaned(idx).name), Cleaned(idx))
  THEN skipped_count' = skipped_count + 1 /\ updated_count' = updated_count
  ELSE updated_count' = updated_count + 1 /\ skipped_count' = skipped_count

\* C7 as claimed: after a successful real run without reset every valid row
\* whose Country was stored before has that Country stored once with the
\* row's six fields, and the row was counted updated exactly when a field
\* differed from the stored value, skipped otherwise.
C7_UpdateInPlaceEveryRow ==
  /\ [](( Returned /\ ~dry_run /\ ~reset) =>
          \A i \in 1..Len(data) :
            (ValidRow(i) /\ StoredBefore(Cleaned(i).name)) => StoredAsRow(i))
  /\ [][UpdateStep => CountedAgainstStored]_vars

\* C7 amended: the same, for the rows whose name no other valid row of the
\* dataset carries.
C7_UpdateInPlace ==
  /\ [](( Returned /\ ~dry_run /\ ~reset) =>
          \A i \in 1..Len(data) :
            (ValidRow(i) /\ StoredBefore(Cleaned(i).name) /\ OnlyRowOfName(i))
              => StoredAsRow(i))
  /\ [][(UpdateStep /\ OnlyRowOfName(idx)) => CountedAgainstStored]_vars

\* a real run without reset that rewrote the stored X from the only row
\* naming it
C7_Witness ==
  /\ Returned
  /\ ~dry_run
  /\ ~reset
  /\ updated_count = 1
  /\ Len(data) = 2
  /\ ValidRow(1)
  /\ StoredBefore(Cleaned(1).name)
  /\ OnlyRowOfName(1)
  /\ ~SameFields(RowBefore(Cleaned(1).name), Cleaned(1))
  /\ StoredAsRow(1)

\* C8: with reset, a real run empties both tables before the maps are
\* loaded and before any row is handled; when it has returned, every stored
\* Country is a row of the feed and every stored Region is the region of a
\* valid row.
C8_Reset ==
  /\ (reset /\ ~dry_run /\ pc = "preload") =>
        Tables = [regions |-> {}, countries |-> <<>>]
  /\ (reset /\ ~dry_run /\ pc = "rows" /\ idx = 1) =>
        regions_by_name = EmptyMap /\ countries_by_name = EmptyMap
  /\ (reset /\ ~dry_run /\ Returned) =>
        /\ \A k \in 1..Len(countries) :
             \E i \in 1..Len(data) :
               /\ ValidRow(i)
               /\ Cleaned(i).name = countries[k].name
               /\ SameFields(countries[k], Cleaned(i))
        /\ \A r \in regions : \E i \in 1..Len(data) : ValidRow(i) /\ Cleaned(i).region = r

\* a real run with reset has returned; a Country and a Region stored before
\* are not in the feed and are gone, and the feed's Country is stored
C8_Witness ==
  /\ reset
  /\ ~dry_run
  /\ Returned
  /\ countries # <<>>
  /\ \E k \in 1..Len(before.countries) : before.countries[k].name \notin ValidNames(data)
  /\ \E r \in before.regions : r \notin regions

\* C9: the command clears the cache at most once, and it has cleared it
\* exactly when a real run has completed, after the commit; never on a dry
\* run and never on a run that failed.
C9_CacheClear ==
  /\ cache_clears <= 1
  /\ cache_clears = 1 <=> (pc = "done" /\ ~dry_run)
  /\ cache_clears = 1 => txn = "committed"
  /\ (dry_run \/ pc = "failed") => cache_clears = 0

\* a real run that created a Country has completed and cleared the cache
C9_Witness ==
  /\ pc = "done"
  /\ ~dry_run
  /\ txn = "committed"
  /\ created_count > 0
  /\ cache_clears = 1

\* ---- fetch_data
RetryableOutcome(o) ==
  \/ o.kind \in {"ConnectionError", "Timeout"}
  \/ o.kind = "response" /\ o.status >= 500 /\ o.status <= 599
FetchEnded == fetch_pc \in {"returned", "raised"}
LastOutcome == history[Len(history)]

\* C10: fetch_data makes at most 3 attempts and ends; every attempt but the
\* last met a connection failure, a timeout or a 5xx; a success, a 4xx or
\* an invalid payload ends the call at that attempt; after a third
\* retryable failure the exception of that attempt is raised.
C10_BoundedRetry ==
  /\ [](/\ attempt_number <= 3
        /\ Len(history) = attempt_number
        /\ \A i \in 1..(Len(history) - 1) : RetryableOutcome(history[i])
        /\ (attempt_number >= 1 /\ ~RetryableOutcome(LastOutcome)) => FetchEnded
        /\ (attempt_number >= 1 /\ LastOutcome.kind = "response" /\ LastOutcome.status = 200
              /\ LastOutcome.body = "list" /\ LastOutcome.write_ok)
             => fetch_pc = "returned"
        /\ (attempt_number = 3 /\ RetryableOutcome(LastOutcome)) =>
             /\ fetch_pc = "raised"
             /\ fetch_exc = FetchOnce(LastOutcome, save_response)
        /\ fetch_pc = "raised" => fetch_exc = FetchOnce(LastOutcome, save_response))
  /\ [][FetchEnded => UNCHANGED fetchVars]_vars
  /\ <>FetchEnded

\* the call raised the 503 of its third attempt, after a timeout and a
\* connection failure
C10_Witness ==
  /\ fetch_pc = "raised"
  /\ attempt_number = 3
  /\ history[1].kind = "Timeout"
  /\ history[2].kind = "ConnectionError"
  /\ history[3].status = 503
  /\ fetch_exc = [type |-> "HTTPError", status |-> 503]

\* ---- a failed fetch
\* C11: when fetch_data raises (a network error after the retries, an HTTP
\* error, a payload that is no non-empty JSON array), the command has failed
\* with no transaction opened, the tables are those of its start whether
\* reset was asked or not, no map was loaded, no row was handled, and the
\* cache was not cleared.
C11_FailedFetchAppliesNothing ==
  (runs > 0 /\ fetch_exc # NoException) =>
    /\ pc = "failed"
    /\ txn = "none"
    /\ Tables = before
    /\ cache_clears = 0
    /\ idx = 1
    /\ regions_by_name = EmptyMap
    /\ countries_by_name = EmptyMap

\* a real run with reset on a populated store whose fetch ended with the
\* ValueError of an invalid payload
C11_Witness ==
  /\ fetch_exc.type = "ValueError"
  /\ pc = "failed"
  /\ reset
  /\ ~dry_run
  /\ countries # <<>>
  /\ regions # {}

\* the last attempt got a valid non-empty array and could not write
\* api_response.json
ArtifactWriteFailed ==
  /\ attempt_number >= 1
  /\ save_response
  /\ LastOutcome.kind = "response"
  /\ LastOutcome.status = 200
  /\ LastOutcome.body = "list"
  /\ ~LastOutcome.write_ok

\* C12: when save_response is set and the response is a valid non-empty
\* array, a failure to write the artifact file does not make fetch_data
\* fail and triggers no further attempt: the call returns the rows.
C12_ArtifactFailureHarmless ==
  ArtifactWriteFailed => (fetch_pc = "returned" /\ fetch_exc = NoException)

\* ---- the stats endpoint
Answered == requests > 0
StatsStep == requests' = requests + 1
\* the page and per_page of the last request, as the form reads them
ReqPage == IntegerFieldClean(GetParam(response.request.page, DefaultPage))
ReqPerPage == IntegerFieldClean(GetParam(response.request.per_page, DefaultPerPage))
PageValid == PageFieldOk(GetParam(response.request.page, DefaultPage))
PerPageValid == PerPageFieldOk(GetParam(response.request.per_page, DefaultPerPage))
NameValid == NameFieldOk(RawName(response.request.name))
\* the page asked for, 1 standing for whatever is not a positive integer
PositivePageOrOne ==
  IF ReqPage.ok /\ ~ReqPage.empty /\ ReqPage.v >= 1 THEN ReqPage.v ELSE 1

\* C13: whatever the page parameter, a request whose per_page and name are
\* valid is answered 200; a page that is 0, negative or not a number is
\* served as page 1 and a page above total_pages as total_pages, meta.page
\* being the page served.
C13_PageClamped ==
  (Answered /\ PerPageValid /\ NameValid) =>
    /\ response.status = 200
    /\ response.body.meta.page =
         IF PositivePageOrOne > response.body.meta.total_pages
         THEN response.body.meta.total_pages
         ELSE PositivePageOrOne

\* the page parameter of the last request is an integer below 1
PageBelowOne == ReqPage.ok /\ ~ReqPage.empty /\ ReqPage.v < 1

\* C14: a request whose page is an integer below 1 (0, say) is answered
\* 400 with a body holding an error key; the cache is not read or written
\* for it and the aggregation query does not run.
C14_InvalidPageRejected ==
  /\ []((Answered /\ PageBelowOne) =>
          /\ response.status = 400
          /\ "error" \in DOMAIN response.body
          /\ ~response.cache_get
          /\ ~response.queried)
  /\ [][(StatsStep /\ PageBelowOne') => UNCHANGED <<cache, served>>]_vars

\* page=0 was answered 400 while the cache held an entry
C14_Witness ==
  /\ Answered
  /\ response.request.page = JStr(<<"0">>)
  /\ response.status = 400
  /\ cache # EmptyMap

\* the per_page parameter of the last request is an integer
PerPageGiven == ReqPerPage.ok /\ ~ReqPerPage.empty

\* C15: a per_page that is an integer outside 1..100 is answered 400 with an
\* error and no regions; a per_page in 1..100 (page and name being valid) is
\* used as it is and reported as meta.per_page.
C15_PerPageValidated ==
  /\ (Answered /\ PerPageGiven /\ (ReqPerPage.v < 1 \/ ReqPerPage.v > 100)) =>
        /\ response.status = 400
        /\ "error" \in DOMAIN response.body
        /\ "regions" \notin DOMAIN response.body
        /\ ~response.queried
  /\ (Answered /\ PerPageGiven /\ ReqPerPage.v >= 1 /\ ReqPerPage.v <= 100
        /\ PageValid /\ NameValid) =>
        /\ response.status = 200
        /\ response.body.meta.per_page = ReqPerPage.v
        /\ Len(response.body.regions) <= ReqPerPage.v

\* per_page=101 was answered 400 after per_page=100 had been served
C15_Witness ==
  /\ Answered
  /\ PerPageGiven
  /\ ReqPerPage.v = 101
  /\ response.status = 400
  /\ \E k \in DOMAIN served : k[2] = 100 /\ served[k].meta.per_page = 100

\* the (page, per_page, name) of a request
TripleOf(req) ==
  <<ParseStatsQuery(req).page, ParseStatsQuery(req).per_page, ParseStatsQuery(req).name>>
MetaFields ==
  {"total_regions", "page", "total_pages", "per_page", "has_next", "has_previous"}
\* the request of this step has the (page, per_page, name) of a request
\* that stored its response less than the TTL ago, the cache not having
\* been cleared since
WithinTtlOfFirst ==
  /\ StatsStep
  /\ ParseStatsQuery(response'.request).ok
  /\ TripleOf(response'.request) \in DOMAIN served
  /\ now < served[TripleOf(response'.request)].at + CacheTimeout

\* C16: a request with the (page, per_page, name) of an earlier one, made
\* within the TTL of the entry that one stored and with no cache clear in
\* between, returns the regions and the meta fields of the earlier response
\* and does not run the aggregation query, whatever the tables hold by
\* then; execution_time_ms is the time of the request itself and no cache
\* entry holds one.
C16_CacheHitVerbatim ==
  /\ [][WithinTtlOfFirst =>
          /\ response'.status = 200
          /\ response'.body.regions = served[TripleOf(response'.request)].regions
          /\ \A f \in MetaFields :
               response'.body.meta[f] = served[TripleOf(response'.request)].meta[f]
          /\ ~response'.queried
          /\ UNCHANGED cache]_vars
  /\ [](response.status = 200 =>
          response.body.meta["execution_time_ms"] = response.elapsed)
  /\ [](\A k \in DOMAIN cache : DOMAIN cache[k].meta = MetaFields)

\* a request was served from the cache what the tables no longer hold
C16_Witness ==
  /\ response.status = 200
  /\ ~response.queried
  /\ response.body.regions # <<>>
  /\ response.body.regions #
       ComputeStats(regions, countries, ParseStatsQuery(response.request)).regions

\* ---- the aggregation
CountryIndexes(region) == {k \in 1..Len(countries) : countries[k].region = region}
RECURSIVE PopulationOver(_)
PopulationOver(indexes) ==
  IF indexes = {} THEN 0
  ELSE LET k == CHOOSE i \in indexes : TRUE
       IN countries[k].population + PopulationOver(indexes \ {k})
AllStats == GetRegionStats(regions, countries, <<>>)

\* C17: get_region_stats returns one row per stored Region, a Region
\* without countries included, with the number of Countries of the Region
\* and the sum of their populations (0 when it has none), by ascending name.
C17_RegionAggregation ==
  /\ [](/\ Len(AllStats) = Cardinality(regions)
        /\ {AllStats[i].name : i \in 1..Len(AllStats)} = regions
        /\ \A i \in 1..Len(AllStats) :
             /\ AllStats[i].number_countries =
                  Cardinality(CountryIndexes(AllStats[i].name))
             /\ AllStats[i].total_population =
                  PopulationOver(CountryIndexes(AllStats[i].name))
        /\ \A i \in 1..(Len(AllStats) - 1) :
             NameLess(AllStats[i].name, AllStats[i + 1].name))
  /\ [][(StatsStep /\ response'.status = 200 /\ response'.queried
          /\ ParseStatsQuery(response'.request).name = <<>>
          /\ response'.body.meta.total_pages = 1)
        => response'.body.regions = AllStats]_vars

\* a request got the three regions, of which one has two countries and one
\* has none
C17_Witness ==
  /\ response.status = 200
  /\ response.queried
  /\ Len(response.body.regions) = 3
  /\ response.body.regions[1] =
       [name |-> RegionR, number_countries |-> 2, total_population |-> 12]
  /\ response.body.regions[2] =
       [name |-> RegionRa, number_countries |-> 0, total_population |-> 0]

\* the filters get_region_stats is given
NameFilters ==
  { <<>>, <<" ">>, <<"r">>, <<"R">>, <<"a">>, <<"A">>, <<"s">>, <<" ", "r", " ">>,
    <<"r", "A">>, <<"a", "r">>, <<"R", "a", "a">> }
\* part is found in name, letter case apart
FoundIgnoringCase(name, part) ==
  \E i \in 1..(Len(name) + 1), j \in 0..Len(name) :
    SubSeq(Upper(name), i, j) = Upper(part)
RECURSIVE RowsMatching(_, _)
RowsMatching(rows, part) ==
  IF rows = <<>> THEN <<>>
  ELSE IF FoundIgnoringCase(Head(rows).name, part)
       THEN <<Head(rows)>> \o RowsMatching(Tail(rows), part)
       ELSE RowsMatching(Tail(rows), part)

\* C18: with a filter that is not empty, get_region_stats returns the rows
\* of the unfiltered result whose name holds the trimmed filter, letter case
\* apart, with their counts and sums and in the same order; with no filter
\* or an empty one it returns every row.
C18_NameFilter ==
  /\ [](\A f \in NameFilters :
          GetRegionStats(regions, countries, f) =
            IF f = <<>> THEN AllStats ELSE RowsMatching(AllStats, Strip(f)))
  /\ [][(StatsStep /\ response'.status = 200 /\ response'.queried
          /\ response'.body.meta.total_pages = 1)
        => response'.body.regions =
             RowsMatching(AllStats, ParseStatsQuery(response'.request).name)]_vars

\* name=r was answered with R and Ra out of three regions
C18_Witness ==
  /\ response.status = 200
  /\ response.queried
  /\ response.request.name = JStr(<<"r">>)
  /\ Cardinality(regions) = 3
  /\ Len(response.body.regions) = 2
  /\ response.body.regions[1].name = RegionR
  /\ response.body.regions[2].name = RegionRa

\* ---- validate_row and topLevelDomain
Called == v_row.keys # {}
HasTld == "topLevelDomain" \in v_row.keys
\* the row apart from its topLevelDomain is one the form accepts
OtherFieldsOk == ValidateRowOk([v_row EXCEPT !.topLevelDomain = JList(<<>>)])
\* the entry is a str that, trimmed, is not empty and matches the pattern
EntryValid(e) == e.t = "str" /\ Strip(e.v) # <<>> /\ TldPatternMatch(Strip(e.v))
\* the valid entries of a list, as they are and trimmed, in their order
RECURSIVE ValidEntries(_)
ValidEntries(items) ==
  IF items = <<>> THEN <<>>
  ELSE ValidEntries(SubSeq(items, 1, Len(items) - 1))
         \o (IF EntryValid(items[Len(items)]) THEN <<items[Len(items)]>> ELSE <<>>)
Trimmed(items) == [i \in 1..Len(items) |-> JStr(Strip(items[i].v))]

AsNativeList == [v_row EXCEPT !.topLevelDomain = JsonLoads(v_row.topLevelDomain.v)]

\* C20: a row whose topLevelDomain is a str holding the JSON text of a list
\* is accepted like the row with the list itself, with the same normalized
\* value; a row whose topLevelDomain is a str that is no JSON is rejected.
C20_TldShapes ==
  /\ (Called /\ HasTld /\ v_row.topLevelDomain.t = "strjson"
        /\ JsonLoads(v_row.topLevelDomain.v).t = "list" /\ ValidateRowOk(AsNativeList)) =>
        /\ v_out.ok
        /\ v_out.cleaned.topLevelDomain = ValidateRow(AsNativeList).topLevelDomain
  /\ (Called /\ HasTld /\ v_row.topLevelDomain.t = "str") => ~v_out.ok

\* ---- validate_row and the codes
HasCodes == {"alpha2Code", "alpha3Code"} \subseteq v_row.keys

\* C21 as claimed: an accepted row returns its codes uppercased, and a row
\* whose alpha2Code has not exactly 2 characters or whose alpha3Code has not
\* exactly 3 is rejected.
C21_CodeNormalizationAsGiven ==
  /\ (Called /\ v_out.ok) =>
       /\ v_out.cleaned.alpha2Code = Upper(v_row.alpha2Code)
       /\ v_out.cleaned.alpha3Code = Upper(v_row.alpha3Code)
  /\ (Called /\ HasCodes /\ (Len(v_row.alpha2Code) # 2 \/ Len(v_row.alpha3Code) # 3))
       => ~v_out.ok

\* C21 amended: an accepted row returns its codes trimmed of surrounding
\* blanks and uppercased, and a row whose trimmed alpha2Code has not exactly
\* 2 characters or whose trimmed alpha3Code has not exactly 3 is rejected.
C21_CodeNormalization ==
  /\ (Called /\ v_out.ok) =>
       /\ v_out.cleaned.alpha2Code = Upper(Strip(v_row.alpha2Code))
       /\ v_out.cleaned.alpha3Code = Upper(Strip(v_row.alpha3Code))
  /\ (Called /\ HasCodes
        /\ (Len(Strip(v_row.alpha2Code)) # 2 \/ Len(Strip(v_row.alpha3Code)) # 3))
       => ~v_out.ok

\* a row with a mixed-case alpha2Code and an alpha3Code followed by a blank
\* was accepted and returned AB and AAA
C21_Witness ==
  /\ Called
  /\ v_row.alpha2Code = <<"A", "b">>
  /\ v_row.alpha3Code = <<"a", "a", "a", " ">>
  /\ v_out.ok
  /\ v_out.cleaned.alpha2Code = <<"A", "B">>
  /\ v_out.cleaned.alpha3Code = CodeAAA

\* ---- the stored records
\* a stored Country has a code of 2 and a code of 3 uppercase letters and a
\* population of at least 0
WellFormed(row) ==
  /\ Len(row.alpha2Code) = 2
  /\ Len(row.alpha3Code) = 3
  /\ \A i \in 1..2 : row.alpha2Code[i] \in UpperCase
  /\ \A i \in 1..3 : row.alpha3Code[i] \in UpperCase
  /\ row.population >= 0

\* C22: when the tables held only well-formed countries as the command
\* started, they hold only well-formed countries after a successful import,
\* whether a Country was created or updated.
C22_StoredRecords ==
  (pc = "done" /\ ~dry_run /\ \A k \in 1..Len(before.countries) : WellFormed(before.countries[k]))
    => \A k \in 1..Len(countries) : WellFormed(countries[k])

\* ---- the batch size check
\* C23: a command given a batch size of zero or less fails with
\* CommandError having made no call of fetch_data, opened no transaction,
\* read nothing from the tables into its maps, written nothing to the
\* tables and not cleared the cache.
C23_BadBatchSizeFatal ==
  (runs > 0 /\ batch_size <= 0) =>
    /\ pc = "failed"
    /\ error = "CommandError"
    /\ fetch_calls = 0
    /\ txn = "none"
    /\ regions_by_name = EmptyMap
    /\ countries_by_name = EmptyMap
    /\ Tables = before
    /\ cache_clears = 0

\* a command with --reset and a negative batch size, on tables that hold
\* countries, has failed
C23_Witness ==
  /\ runs > 0
  /\ batch_size < 0
  /\ reset
  /\ ~dry_run
  /\ pc = "failed"
  /\ countries # <<>>

\* ---- the two queues
\* process_records is running, or has returned, with a positive batch size
Processing == runs > 0 /\ batch_size > 0 /\ pc \in {"rows", "commit", "clear", "done"}

\* C24: for a positive batch size, between rows each queue holds fewer than
\* batch_size entries; what was enqueued is what was flushed followed by
\* what is pending, each flush of the loop having taken batch_size entries
\* (so a queue is flushed when it reaches batch_size and every entry is
\* flushed once); a flush of one queue leaves the other as it is; both
\* queues are empty when process_records has returned.
C24_Batching ==
  Processing =>
    /\ Len(to_create) < batch_size
    /\ Len(to_update) < batch_size
    /\ enqueued.create = flushed.create \o to_create
    /\ enqueued.update = flushed.update \o to_update
    /\ pc = "rows" =>
         /\ Len(flushed.create) = batch_size * (Len(enqueued.create) \div batch_size)
         /\ Len(flushed.update) = batch_size * (Len(enqueued.update) \div batch_size)
         /\ FlushCreate(Locals, dry_run, can_return_ids).to_update = to_update
         /\ FlushUpdate(Locals, dry_run).to_create = to_create
    /\ Returned => to_create = <<>> /\ to_update = <<>>

\* with a batch size of 2, the second new country filled the queue and
\* both were inserted at once
C24_Witness ==
  /\ Processing
  /\ pc = "rows"
  /\ batch_size = 2
  /\ ~dry_run
  /\ idx = 3
  /\ Len(flushed.create) = 2
  /\ to_create = <<>>
  /\ Len(countries) = Len(before.countries) + 2

\* ---- the regions of a run
\* the Region rows preload_regions_by_name found
PreloadedRegions == IF reset /\ ~dry_run THEN {} ELSE before.regions

\* the names, of the valid rows among the first i, that the preload did not
\* find, each once, in the order of their first row; the name of a row is
\* its region without the blanks around it
RowRegionName(i) == Strip(data[i].region)
WithRegionOf(names, i) ==
  IF ValidRow(i) /\ RowRegionName(i) \notin PreloadedRegions \cup Range(names)
  THEN Append(names, RowRegionName(i))
  ELSE names
RECURSIVE FirstNewRegions(_)
FirstNewRegions(i) ==
  IF i = 0 THEN <<>> ELSE WithRegionOf(FirstNewRegions(i - 1), i)

RowsDone == IF pc = "rows" THEN idx - 1 ELSE Len(data)

\* C25: in a run, the Regions constructed are the names of the validated
\* rows that the store did not hold, each once and at its first row,
\* names differing in case being different names; a name the store held
\* is never constructed; a constructed Region is in the table at once
\* unless dry_run, and in the map for the later rows; every Country the run
\* holds points to the Region of the map that has its row's name.
C25_RegionResolution ==
  (runs > 0 /\ pc \in {"rows", "commit", "clear", "done"}) =>
    /\ constructed = FirstNewRegions(RowsDone)
    /\ \A i, j \in 1..Len(constructed) : i # j => constructed[i] # constructed[j]
    /\ Range(constructed) \cap PreloadedRegions = {}
    /\ DOMAIN regions_by_name = PreloadedRegions \cup Range(constructed)
    /\ \A n \in PreloadedRegions : regions_by_name[n]
    /\ \A n \in Range(constructed) : regions_by_name[n] = ~dry_run
    /\ regions = IF dry_run THEN before.regions
                 ELSE PreloadedRegions \cup Range(constructed)
    /\ \A c \in DOMAIN countries_by_name :
         countries_by_name[c].region \in DOMAIN regions_by_name

\* a run on a store that holds R met a row of region r, constructed and
\* saved the Region r beside R, and nothing else
C25_Witness ==
  /\ runs > 0
  /\ pc = "done"
  /\ ~dry_run
  /\ ~reset
  /\ RegionR \in before.regions
  /\ constructed = << <<"r">> >>
  /\ regions = before.regions \cup {<<"r">>}

\* ---- pagination
PageCalled == pg_in.per_page > 0
\* ceil(a / b) and the smaller of two numbers
Ceil(a, b) == CHOOSE k \in 0..a : (k - 1) * b < a /\ a <= k * b
Smaller(a, b) == IF a < b THEN a ELSE b
TotalPages == IF Ceil(pg_in.total, pg_in.per_page) < 1 THEN 1 ELSE Ceil(pg_in.total, pg_in.per_page)

\* C26: the page served for a queryset of total items and a per_page of
\* 1..100 has total_regions = total, total_pages = max(1, ceil(total /
\* per_page)), 1 <= page <= total_pages, has_next exactly when page <
\* total_pages, has_previous exactly when page > 1, and holds the items at
\* positions (page - 1) * per_page up to but not min(page * per_page, total).
C26_PageArithmetic ==
  PageCalled =>
    /\ pg_out.meta.total_regions = pg_in.total
    /\ pg_out.meta.total_pages = TotalPages
    /\ 1 <= pg_out.meta.page
    /\ pg_out.meta.page <= TotalPages
    /\ pg_out.meta.has_next <=> pg_out.meta.page < TotalPages
    /\ pg_out.meta.has_previous <=> pg_out.meta.page > 1
    /\ pg_out.regions =
         [i \in 1..(Smaller(pg_out.meta.page * pg_in.per_page, pg_in.total)
                      - (pg_out.meta.page - 1) * pg_in.per_page) |->
            (pg_out.meta.page - 1) * pg_in.per_page + i]

\* page 3 of 5 items by 2 is the last page and holds the fifth item alone
C26_Witness ==
  /\ pg_in = [total |-> 5, page |-> 3, per_page |-> 2]
  /\ pg_out.regions = <<5>>
  /\ pg_out.meta.total_pages = 3
  /\ pg_out.meta.has_previous
  /\ ~pg_out.meta.has_next

\* ---- the cache key
\* validated queries: pages and per_page values whose digits could run into
\* one another, names that differ in case, in a blank, in a hyphen
KeyTriples ==
  {1, 2, 11, 12, 21} \X {1, 2, 10, 11, 100}
    \X {<<>>, <<"r">>, <<"R">>, <<"r", " ", "r">>, <<"r", "-">>, <<"r", "r">>}
KeySrc(t) == CacheKey(t[1], t[2], t[3]).md5
KeysSeparate == \A t1, t2 \in KeyTriples : t1 # t2 => KeySrc(t1) # KeySrc(t2)

\* C27: validated queries that differ in page, per_page or name have
\* different key source strings; the cache holds one entry per query that
\* stored one, under that query's key, expiring 300 seconds after it was
\* stored; and a request answered from the cache is answered with the
\* entry a request of its own (page, per_page, name) stored.
C27_KeySeparation ==
  /\ [](KeysSeparate)
  /\ [](DOMAIN cache = {CacheKey(t[1], t[2], t[3]) : t \in DOMAIN served})
  /\ [](\A t \in DOMAIN served :
          /\ cache[CacheKey(t[1], t[2], t[3])].expires = served[t].at + 300
          /\ cache[CacheKey(t[1], t[2], t[3])].regions = served[t].regions
          /\ cache[CacheKey(t[1], t[2], t[3])].meta = served[t].meta)
  /\ [][(StatsStep /\ response'.status = 200 /\ ~response'.queried) =>
          /\ TripleOf(response'.request) \in DOMAIN served
          /\ response'.body.regions = served[TripleOf(response'.request)].regions]_vars

\* a request with a name stored its entry, and the request without a name
\* that came next was not answered with it: it queried and stored its own
C27_Witness ==
  /\ Cardinality(DOMAIN cache) = 2
  /\ response.status = 200
  /\ response.queried
  /\ TripleOf(response.request)[3] = <<>>
  /\ \E t \in DOMAIN served :
       /\ t[3] # <<>>
       /\ served[t].regions # response.body.regions
       /\ served[t].regions # <<>>

\* ---- stats beside an import
\* C28: a stats request that begins after the import has finished (commit
\* done, cache cleared) is never answered from a cache entry computed from
\* the tables as they were before the import.
C28_NoStaleAfterImport ==
  (race.phase = "replied" /\ race.after_import /\ race.hit) => ~race.from_pre

\* ---- the batch size and the outcome
\* a command with a positive batch size has ended after its fetch
Ended == runs > 0 /\ batch_size > 0 /\ fetch_exc = NoException /\ pc \in {"done", "failed"}
\* what it left behind
ActualOutcome ==
  IF pc = "done"
  THEN [ok |-> TRUE, created |-> created_count, updated |-> updated_count,
        skipped |-> skipped_count, regions |-> regions, countries |-> countries]
  ELSE [ok |-> FALSE, created |-> 0, updated |-> 0, skipped |-> 0,
        regions |-> regions, countries |-> countries]

\* C29: the outcome of an import (success or failure, the three counts,
\* the tables afterwards) is the one every other positive batch size gives
\* on the same dataset, tables and flags.
C29_BatchSizeIndependent ==
  Ended =>
    \A bs \in 1..MaxBatch :
      ImportOutcome(before, data, bs, dry_run, reset, can_return_ids) = ActualOutcome

\* ---- what the update queue holds
\* the Countries preload_countries_by_name found
PreloadedCountries ==
  IF reset /\ ~dry_run THEN {} ELSE {before.countries[k].name : k \in 1..Len(before.countries)}

\* C30: the update queue holds only Countries the preload loaded from the
\* store, none of them twice, and none that is in the create queue too.
C30_UpdateQueuePersisted ==
  (runs > 0 /\ pc \in {"rows", "commit", "clear", "done", "failed"}) =>
    /\ Range(to_update) \subseteq PreloadedCountries
    /\ \A i, j \in 1..Len(to_update) : i # j => to_update[i] # to_update[j]
    /\ Range(to_update) \cap Range(to_create) = {}

====
